---- MODULE Spec2Model ----
(***************************************************************************)
(* Model of the model-property cache (src/src/cache.ts, class ModelCache)  *)
(* and of parseModelProperties, the asynchronous entry point that locates  *)
(* a C# model file, consults the cache, reads and scans the file and       *)
(* stores the result.                                                      *)
(*                                                                         *)
(* Strings of the program are sequences of one-character strings, so that  *)
(* trim, split, includes and the scanner's patterns are computed and not   *)
(* looked up.  Times are milliseconds, as Date.now() and stats.mtimeMs.    *)
(***************************************************************************)
EXTENDS Integers, Sequences, FiniteSets, TLC

(***************************************************************************)
(* Bounds of the model.                                                    *)
(***************************************************************************)
\* The clock advances MaxTicks times by TickMs.
MaxTicks == 2

\* The number of parseModelProperties calls that can be in flight at once.
MaxCalls == 2

\* The number of lines a class body is made of.
MaxLines == 3

\* The number of member lines of a class in a source file.
MaxMembers == 2

\* The number of array objects the program makes, and the number of
\* elements a caller adds to an array it holds.
MaxArrays == 3
MaxPushed == 2

\* The size bound the cache is given.  The source sets 100 (cache.ts line 9);
\* the model scales it down so that a handful of type names fill the cache.
CacheSizeBound == 2
maxCacheSize == CacheSizeBound

(***************************************************************************)
(* String helpers (String.prototype methods used by the source).           *)
(***************************************************************************)
\* \s, as far as the texts of the model go
Space == {" ", "\t", "\n", "\r"}
IsSpace(ch) == ch \in Space

\* The last index of the run of characters of class cls that starts at i
\* (i - 1 when s[i] is not in cls).
RunEnd(s, i, cls) ==
  LET outside == {j \in i..Len(s) : s[j] \notin cls}
  IN  IF outside = {} THEN Len(s)
      ELSE (CHOOSE j \in outside : \A k \in outside : j <= k) - 1

\* s.startsWith(p)
StartsWith(s, p) == Len(s) >= Len(p) /\ SubSeq(s, 1, Len(p)) = p

\* s.endsWith(p)
EndsWith(s, p) == Len(s) >= Len(p) /\ SubSeq(s, Len(s) - Len(p) + 1, Len(s)) = p

\* s.includes(p)
Includes(s, p) == \E i \in 1..(Len(s) - Len(p) + 1) : SubSeq(s, i, i + Len(p) - 1) = p

\* s.trim()
Trim(s) ==
  LET kept == {i \in 1..Len(s) : ~IsSpace(s[i])}
  IN  IF kept = {} THEN <<>>
      ELSE LET lo == CHOOSE i \in kept : \A j \in kept : i <= j
               hi == CHOOSE i \in kept : \A j \in kept : j <= i
           IN  SubSeq(s, lo, hi)

\* s.split(sep).pop() for a one-character separator: the text after the last
\* separator (the whole text when there is none).
SplitPop(s, sep) ==
  LET at == {i \in 1..Len(s) : s[i] = sep}
  IN  IF at = {} THEN s
      ELSE LET last == CHOOSE i \in at : \A j \in at : j <= i
           IN  SubSeq(s, last + 1, Len(s))

\* JavaScript truthiness of a string: the empty string is falsy.
Truthy(s) == Len(s) > 0

\* The characters regular expressions tell apart.
Upper == {"A", "B", "C", "D", "E", "F", "G", "H", "I", "J", "K", "L", "M",
          "N", "O", "P", "Q", "R", "S", "T", "U", "V", "W", "X", "Y", "Z"}
Lower == {"a", "b", "c", "d", "e", "f", "g", "h", "i", "j", "k", "l", "m",
          "n", "o", "p", "q", "r", "s", "t", "u", "v", "w", "x", "y", "z"}
Digit == {"0", "1", "2", "3", "4", "5", "6", "7", "8", "9"}
\* [A-Za-z_] and [A-Za-z0-9_]
IdentStart == Upper \cup Lower \cup {"_"}
IdentChar == IdentStart \cup Digit
\* a line terminator: what "." never matches and "$" (flag m) stops before
LineEnd == {"\n", "\r"}

LowerOf ==
  [ch \in Upper |->
     CASE ch = "A" -> "a" [] ch = "B" -> "b" [] ch = "C" -> "c" [] ch = "D" -> "d"
       [] ch = "E" -> "e" [] ch = "F" -> "f" [] ch = "G" -> "g" [] ch = "H" -> "h"
       [] ch = "I" -> "i" [] ch = "J" -> "j" [] ch = "K" -> "k" [] ch = "L" -> "l"
       [] ch = "M" -> "m" [] ch = "N" -> "n" [] ch = "O" -> "o" [] ch = "P" -> "p"
       [] ch = "Q" -> "q" [] ch = "R" -> "r" [] ch = "S" -> "s" [] ch = "T" -> "t"
       [] ch = "U" -> "u" [] ch = "V" -> "v" [] ch = "W" -> "w" [] ch = "X" -> "x"
       [] ch = "Y" -> "y" [] ch = "Z" -> "z"]

\* s.toLowerCase()
ToLower(s) == [i \in 1..Len(s) |-> IF s[i] \in Upper THEN LowerOf[s[i]] ELSE s[i]]

\* The pieces of s.split(sep) for a one-character separator.
Split(s, sep) ==
  LET n == Len(s)
      cuts == {i \in 1..n : s[i] = sep}
      \* the piece that starts at position i (one past a separator, or 1)
      pieceEnd(i) ==
        IF \E j \in cuts : j >= i
        THEN (CHOOSE j \in cuts : j >= i /\ \A k \in cuts : k >= i => j <= k) - 1
        ELSE n
      f[i \in 1..(n + 2)] ==
        IF i > n + 1 THEN <<>>
        ELSE <<SubSeq(s, i, pieceEnd(i))>> \o
             (IF pieceEnd(i) = n THEN <<>> ELSE f[pieceEnd(i) + 2])
  IN  f[1]

\* The number of occurrences of ch in s: (s.match(/ch/g) ?? []).length
Count(s, ch) == Cardinality({i \in 1..Len(s) : s[i] = ch})

\* s.replace(re, rep) for a global pattern: scanning from the left, the
\* next match is the one at the first position from i on where one starts;
\* it ends at matchEnd[j] (0 where no match starts), is replaced by rep, and
\* the scan goes on after it.
ReplaceAll(s, matchEnd, rep) ==
  LET n == Len(s)
      starts == {j \in 1..n : matchEnd[j] > 0}
      f[i \in 1..(n + 1)] ==
        LET later == {j \in starts : j >= i}
        IN  IF later = {} THEN SubSeq(s, i, n)
            ELSE LET j == CHOOSE x \in later : \A y \in later : x <= y
                 IN  SubSeq(s, i, j - 1) \o rep \o f[matchEnd[j] + 1]
  IN  f[1]

At(s, i, p) == i + Len(p) - 1 <= Len(s) /\ SubSeq(s, i, i + Len(p) - 1) = p

(***************************************************************************)
(* cleanSourceCode: five replacements, in this order.                      *)
(***************************************************************************)
\* /\/\*[\s\S]*?\*\//  the nearest closing mark ends the comment
BlockCommentEnd(s, i) ==
  IF ~At(s, i, <<"/", "*">>) THEN 0
  ELSE LET ends == {j \in (i + 2)..(Len(s) - 1) : At(s, j, <<"*", "/">>)}
       IN  IF ends = {} THEN 0
           ELSE (CHOOSE j \in ends : \A k \in ends : j <= k) + 1

\* A line comment pattern that takes the line break with it.
LineCommentEnd_TakesBreak(s, i) ==
  IF ~At(s, i, <<"/", "/">>) THEN 0
  ELSE LET stops == {j \in (i + 2)..Len(s) : s[j] \in LineEnd}
       IN  IF stops = {} THEN Len(s)
           ELSE CHOOSE j \in stops : \A k \in stops : j <= k

\* /\/\/.*$/m  to the end of the line
LineCommentEnd(s, i) ==
  IF ~At(s, i, <<"/", "/">>) THEN 0
  ELSE LET stops == {j \in (i + 2)..Len(s) : s[j] \in LineEnd}
       IN  IF stops = {} THEN Len(s)
           ELSE (CHOOSE j \in stops : \A k \in stops : j <= k) - 1

\* The number of backslashes in a row that end just before position p,
\* counted back no further than position i + 1.
BackslashesBefore(s, i, p) ==
  LET others == {j \in i..(p - 1) : j = i \/ s[j] # "\\"}
  IN  (p - 1) - (CHOOSE j \in others : \A k \in others : k <= j)

\* /q(?:[^q\\]|\\.)*q/ for a quote q that starts at i: a backslash escapes
\* the character after it, so a position is escaped when an odd number of
\* backslashes precede it.  The first quote that is not escaped closes the
\* literal; an escaping backslash before a line end, or no closing quote,
\* leaves the pattern without a match here.
QuotedEnd(s, i, q) ==
  LET n == Len(s)
      free(p) == BackslashesBefore(s, i, p) % 2 = 0
      closes == {p \in (i + 1)..n : s[p] = q /\ free(p)}
      close == CHOOSE p \in closes : \A k \in closes : p <= k
  IN  IF i > n \/ s[i] # q \/ closes = {} THEN 0
      ELSE IF \E b \in (i + 1)..(close - 1) :
                s[b] = "\\" /\ free(b) /\ s[b + 1] \in LineEnd
      THEN 0
      ELSE close

StringEnd(s, i) == QuotedEnd(s, i, "\"")
CharEnd(s, i) == QuotedEnd(s, i, "'")

\* /@"(?:[^"]|"")*"/  a doubled quote is content, so of a run of quotes the
\* last one closes when the run is odd; the first odd run ends the match.
\* When there is none the pattern backtracks to the last doubled quote and
\* takes its first quote as the closing one.
VerbatimEnd(s, i) ==
  LET n == Len(s)
      quote == "\""
      runs == {p \in (i + 2)..n : s[p] = quote /\ (p = i + 2 \/ s[p - 1] # quote)}
      odd == {p \in runs : (RunEnd(s, p, {quote}) - p + 1) % 2 = 1}
      quotes == {p \in (i + 2)..n : s[p] = quote}
  IN  IF ~At(s, i, <<"@", quote>>) THEN 0
      ELSE IF odd # {}
      THEN RunEnd(s, CHOOSE p \in odd : \A k \in odd : p <= k, {quote})
      ELSE IF quotes # {}
      THEN (CHOOSE p \in quotes : \A k \in quotes : k <= p) - 1
      ELSE 0

cleanSourceCode(content) ==
  LET c1 == ReplaceAll(content, [j \in 1..Len(content) |-> BlockCommentEnd(content, j)], <<>>)
      c2 == ReplaceAll(c1, [j \in 1..Len(c1) |-> LineCommentEnd(c1, j)], <<>>)
      c3 == ReplaceAll(c2, [j \in 1..Len(c2) |-> StringEnd(c2, j)], <<"\"", "\"">>)
      c4 == ReplaceAll(c3, [j \in 1..Len(c3) |-> CharEnd(c3, j)], <<"'", "'">>)
  IN  ReplaceAll(c4, [j \in 1..Len(c4) |-> VerbatimEnd(c4, j)], <<"\"", "\"">>)

(***************************************************************************)
(* Patterns of the line scanner.                                           *)
(***************************************************************************)
\* [A-Za-z0-9_<>?,\s]
TypeChar == IdentChar \cup {"<", ">", "?", ","} \cup Space

NoMatch == [matched |-> FALSE, type |-> <<>>, name |-> <<>>]

\* /^\[([^\]]*)\]$/  the annotation's interior, or none
AttributeMatch(line) ==
  LET n == Len(line)
  IN  IF /\ n >= 2
         /\ line[1] = "["
         /\ line[n] = "]"
         /\ \A j \in 2..(n - 1) : line[j] # "]"
      THEN [matched |-> TRUE, body |-> SubSeq(line, 2, n - 1)]
      ELSE [matched |-> FALSE, body |-> <<>>]

\* \s+([A-Za-z_][A-Za-z0-9_]*)\s*\{[^}]*\} from position t: the name, or none
AccessorTail(s, t) ==
  LET w == RunEnd(s, t, Space)
      e == RunEnd(s, w + 1, IdentChar)
      k == RunEnd(s, e + 1, Space) + 1
  IN  IF /\ w >= t
         /\ w + 1 <= Len(s)
         /\ s[w + 1] \in IdentStart
         /\ k <= Len(s)
         /\ s[k] = "{"
         /\ \E j \in (k + 1)..Len(s) : s[j] = "}"
      THEN [matched |-> TRUE, name |-> SubSeq(s, w + 1, e)]
      ELSE [matched |-> FALSE, name |-> <<>>]

\* ([A-Za-z_][A-Za-z0-9_<>?,\s]*\??) from position m, followed by the
\* accessor tail: the type is the longest text for which the tail matches.
TypeAndName(s, m) ==
  IF m > Len(s) \/ s[m] \notin IdentStart THEN NoMatch
  ELSE LET r == RunEnd(s, m + 1, TypeChar)
           ok == {e \in m..r : AccessorTail(s, e + 1).matched}
       IN  IF ok = {} THEN NoMatch
           ELSE LET e == CHOOSE x \in ok : \A y \in ok : y <= x
                IN  [matched |-> TRUE, type |-> SubSeq(s, m, e),
                     name |-> AccessorTail(s, e + 1).name]

AccessWords ==
  << <<"p", "u", "b", "l", "i", "c">>,
     <<"i", "n", "t", "e", "r", "n", "a", "l">>,
     <<"p", "r", "o", "t", "e", "c", "t", "e", "d">>,
     <<"p", "r", "i", "v", "a", "t", "e">> >>
ModifierWords ==
  << <<"v", "i", "r", "t", "u", "a", "l">>,
     <<"o", "v", "e", "r", "r", "i", "d", "e">>,
     <<"s", "t", "a", "t", "i", "c">> >>

\* The position after the first word of words found at position i of s
\* (i itself when none starts there).
AfterWord(s, i, words) ==
  LET found == {k \in 1..Len(words) : At(s, i, words[k])}
  IN  IF found = {} THEN i
      ELSE i + Len(words[CHOOSE k \in found : \A j \in found : k <= j])

\* After (?:virtual\s+|override\s+|static\s+) at position b: the position
\* after the word and its spaces, or b when the group does not match.
AfterModifier(s, b) ==
  LET a == AfterWord(s, b, ModifierWords)
      w == RunEnd(s, a, Space)
  IN  IF a > b /\ w >= a THEN w + 1 ELSE b

\* The property pattern.  Both optional groups are tried taken before they
\* are tried skipped, the access word's before the modifier's.
PropertyMatch(line) ==
  LET a == AfterWord(line, 1, AccessWords)
      withAccess == RunEnd(line, a, Space) + 1
      noAccess == RunEnd(line, 1, Space) + 1
      starts == << AfterModifier(line, withAccess), withAccess,
                   AfterModifier(line, noAccess), noAccess >>
      ok == {k \in 1..4 : TypeAndName(line, starts[k]).matched}
  IN  IF ok = {} THEN NoMatch
      ELSE TypeAndName(line, starts[CHOOSE k \in ok : \A j \in ok : k <= j])

(***************************************************************************)
(* shouldSkipProperty                                                      *)
(***************************************************************************)
\* The names /X$/i of skipPatterns, lower case; /^Id$/i is tested apart.
SkipSuffixes ==
  { <<"c", "r", "e", "a", "t", "e", "d", "a", "t">>,
    <<"u", "p", "d", "a", "t", "e", "d", "a", "t">>,
    <<"m", "o", "d", "i", "f", "i", "e", "d", "a", "t">>,
    <<"d", "e", "l", "e", "t", "e", "d", "a", "t">>,
    <<"v", "e", "r", "s", "i", "o", "n">>,
    <<"t", "i", "m", "e", "s", "t", "a", "m", "p">>,
    <<"r", "o", "w", "v", "e", "r", "s", "i", "o", "n">> }

exclusionAttributes ==
  { <<"N", "o", "t", "M", "a", "p", "p", "e", "d">>,
    <<"C", "o", "m", "p", "u", "t", "e", "d">>,
    <<"D", "a", "t", "a", "b", "a", "s", "e", "G", "e", "n", "e", "r", "a", "t", "e", "d">> }

\* Only the name decides.
shouldSkipProperty_NamesOnly(name, attributes) ==
  \/ ToLower(name) = <<"i", "d">>
  \/ \E suffix \in SkipSuffixes : EndsWith(ToLower(name), suffix)

shouldSkipProperty(name, attributes) ==
  \/ \E i \in 1..Len(attributes) :
       \E excl \in exclusionAttributes : Includes(attributes[i], excl)
  \/ ToLower(name) = <<"i", "d">>
  \/ \E suffix \in SkipSuffixes : EndsWith(ToLower(name), suffix)

(***************************************************************************)
(* cleanupType                                                             *)
(***************************************************************************)
\* /\s+/g: a run of white space starting at i ends at its last character
SpaceRunEnd(s, i) ==
  IF i <= Len(s) /\ s[i] \in Space THEN RunEnd(s, i, Space) ELSE 0

\* .replace(/\?\s*$/, ''): the first "?" that only white space follows is
\* cut with what follows it
DropNullableMark(s) ==
  LET at == {i \in 1..Len(s) : s[i] = "?" /\ RunEnd(s, i + 1, Space) = Len(s)}
  IN  IF at = {} THEN s
      ELSE SubSeq(s, 1, (CHOOSE i \in at : \A j \in at : i <= j) - 1)

\* .replace(/^(System\.)?/, '')
DropSystem(s) ==
  IF StartsWith(s, <<"S", "y", "s", "t", "e", "m", ".">>)
  THEN SubSeq(s, 8, Len(s)) ELSE s

\* .replace(/^(Microsoft\..*?\.)?/, ''): up to the nearest later dot on the line
DropMicrosoft(s) ==
  LET head == <<"M", "i", "c", "r", "o", "s", "o", "f", "t", ".">>
      dots == {j \in (Len(head) + 1)..Len(s) :
                 s[j] = "." /\ \A k \in (Len(head) + 1)..(j - 1) : s[k] \notin LineEnd}
  IN  IF StartsWith(s, head) /\ dots # {}
      THEN SubSeq(s, (CHOOSE j \in dots : \A k \in dots : j <= k) + 1, Len(s))
      ELSE s

cleanupType(type) ==
  Trim(DropMicrosoft(DropSystem(DropNullableMark(
         ReplaceAll(type, [j \in 1..Len(type) |-> SpaceRunEnd(type, j)], <<" ">>)))))

(***************************************************************************)
(* extractAttributeMetadata                                                *)
(***************************************************************************)
\* A pattern made of literal words with \s* between them: the position
\* after its match at position i of s, or 0.
RECURSIVE AfterWords(_, _, _)
AfterWords(s, i, words) ==
  IF ~At(s, i, Head(words)) THEN 0
  ELSE IF Len(words) = 1 THEN i + Len(Head(words))
  ELSE AfterWords(s, RunEnd(s, i + Len(Head(words)), Space) + 1, Tail(words))

\* The same pattern followed by \s*.
AfterWordsAndSpace(s, i, words) ==
  LET a == AfterWords(s, i, words)
  IN  IF a = 0 THEN 0 ELSE RunEnd(s, a, Space) + 1

\* ..."([^"]+)" where words ends with the opening quote: the quoted text,
\* as a sequence of zero or one value.  The leftmost start at which the
\* whole pattern matches is taken.
QuotedGroup(s, words) ==
  LET full == {i \in 1..Len(s) :
                 LET q == AfterWords(s, i, words)
                 IN  /\ q > 0
                     /\ q <= Len(s)
                     /\ s[q] # "\""
                     /\ RunEnd(s, q, {s[j] : j \in 1..Len(s)} \ {"\""}) < Len(s)}
  IN  IF full = {} THEN <<>>
      ELSE LET i == CHOOSE x \in full : \A y \in full : x <= y
               q == AfterWords(s, i, words)
           IN  <<SubSeq(s, q, RunEnd(s, q, {s[j] : j \in 1..Len(s)} \ {"\""}))>>

DigitValue ==
  [ch \in Digit |->
     CASE ch = "0" -> 0 [] ch = "1" -> 1 [] ch = "2" -> 2 [] ch = "3" -> 3
       [] ch = "4" -> 4 [] ch = "5" -> 5 [] ch = "6" -> 6 [] ch = "7" -> 7
       [] ch = "8" -> 8 [] ch = "9" -> 9]

\* parseInt(digits, 10)
RECURSIVE ParseInt(_)
ParseInt(digits) ==
  IF digits = <<>> THEN 0
  ELSE 10 * ParseInt(SubSeq(digits, 1, Len(digits) - 1)) + DigitValue[digits[Len(digits)]]

\* ...\s*(\d+): the number at the leftmost start at which one of the
\* patterns, followed by a digit, matches; zero or one value.
NumberGroup(s, patterns) ==
  LET ok(i, k) ==
        LET q == AfterWordsAndSpace(s, i, patterns[k])
        IN  q > 0 /\ q <= Len(s) /\ s[q] \in Digit
      full == {i \in 1..Len(s) : \E k \in 1..Len(patterns) : ok(i, k)}
  IN  IF full = {} THEN <<>>
      ELSE LET i == CHOOSE x \in full : \A y \in full : x <= y
               k == CHOOSE x \in 1..Len(patterns) :
                      ok(i, x) /\ \A y \in 1..(x - 1) : ~ok(i, y)
               q == AfterWordsAndSpace(s, i, patterns[k])
           IN  <<ParseInt(SubSeq(s, q, RunEnd(s, q, Digit)))>>

\* /Display\s*\(\s*Name\s*=\s*"([^"]+)"/
DisplayWords == << <<"D", "i", "s", "p", "l", "a", "y">>, <<"(">>, <<"N", "a", "m", "e">>, <<"=">>, <<"\"">> >>
\* /Description\s*\(\s*"([^"]+)"/
DescriptionWords == << <<"D", "e", "s", "c", "r", "i", "p", "t", "i", "o", "n">>, <<"(">>, <<"\"">> >>
\* /StringLength\s*\(\s*(\d+)/
MaxLengthWords_StringLengthOnly ==
  << << <<"S", "t", "r", "i", "n", "g", "L", "e", "n", "g", "t", "h">>, <<"(">> >> >>

\* /(?:MaxLength|StringLength)\s*\(\s*(\d+)/
MaxLengthWords ==
  << << <<"M", "a", "x", "L", "e", "n", "g", "t", "h">>, <<"(">> >>,
     << <<"S", "t", "r", "i", "n", "g", "L", "e", "n", "g", "t", "h">>, <<"(">> >> >>
\* /MinLength\s*\(\s*(\d+)/
MinLengthWords == << << <<"M", "i", "n", "L", "e", "n", "g", "t", "h">>, <<"(">> >> >>

\* An optional field is a sequence: empty when unset, else its one value.
NoMetadata == [displayName |-> <<>>, description |-> <<>>,
               maxLength |-> <<>>, minLength |-> <<>>]

\* The last annotation that matches a pattern decides its field.
RECURSIVE MetadataFrom(_, _)
MetadataFrom(attributes, metadata) ==
  IF attributes = <<>> THEN metadata
  ELSE LET attr == Head(attributes)
           pick(found, old) == IF found # <<>> THEN found ELSE old
       IN  MetadataFrom(Tail(attributes),
             [displayName |-> pick(QuotedGroup(attr, DisplayWords), metadata.displayName),
              description |-> pick(QuotedGroup(attr, DescriptionWords), metadata.description),
              maxLength |-> pick(NumberGroup(attr, MaxLengthWords), metadata.maxLength),
              minLength |-> pick(NumberGroup(attr, MinLengthWords), metadata.minLength)])

extractAttributeMetadata(attributes) == MetadataFrom(attributes, NoMetadata)

(***************************************************************************)
(* getInputTypeForProperty                                                 *)
(***************************************************************************)
ATTRIBUTE_MAPPINGS ==
  << <<<<"e", "m", "a", "i", "l">>, <<"e", "m", "a", "i", "l">>>>,
     <<<<"p", "h", "o", "n", "e">>, <<"t", "e", "l">>>>,
     <<<<"p", "a", "s", "s", "w", "o", "r", "d">>, <<"p", "a", "s", "s", "w", "o", "r", "d">>>>,
     <<<<"u", "r", "l">>, <<"u", "r", "l">>>>,
     <<<<"c", "o", "l", "o", "r">>, <<"c", "o", "l", "o", "r">>>>,
     <<<<"r", "a", "n", "g", "e">>, <<"r", "a", "n", "g", "e">>>>,
     <<<<"f", "i", "l", "e">>, <<"f", "i", "l", "e">>>>,
     <<<<"h", "i", "d", "d", "e", "n">>, <<"h", "i", "d", "d", "e", "n">>>> >>

TYPE_MAPPINGS ==
  << <<<<"d", "a", "t", "e", "t", "i", "m", "e">>, <<"d", "a", "t", "e", "t", "i", "m", "e", "-", "l", "o", "c", "a", "l">>>>,
     <<<<"d", "a", "t", "e", "t", "i", "m", "e", "o", "f", "f", "s", "e", "t">>, <<"d", "a", "t", "e", "t", "i", "m", "e", "-", "l", "o", "c", "a", "l">>>>,
     <<<<"d", "a", "t", "e">>, <<"d", "a", "t", "e">>>>,
     <<<<"t", "i", "m", "e">>, <<"t", "i", "m", "e">>>>,
     <<<<"t", "i", "m", "e", "s", "p", "a", "n">>, <<"t", "i", "m", "e">>>>,
     <<<<"i", "n", "t">>, <<"n", "u", "m", "b", "e", "r">>>>,
     <<<<"i", "n", "t", "e", "g", "e", "r">>, <<"n", "u", "m", "b", "e", "r">>>>,
     <<<<"l", "o", "n", "g">>, <<"n", "u", "m", "b", "e", "r">>>>,
     <<<<"s", "h", "o", "r", "t">>, <<"n", "u", "m", "b", "e", "r">>>>,
     <<<<"b", "y", "t", "e">>, <<"n", "u", "m", "b", "e", "r">>>>,
     <<<<"d", "e", "c", "i", "m", "a", "l">>, <<"n", "u", "m", "b", "e", "r">>>>,
     <<<<"d", "o", "u", "b", "l", "e">>, <<"n", "u", "m", "b", "e", "r">>>>,
     <<<<"f", "l", "o", "a", "t">>, <<"n", "u", "m", "b", "e", "r">>>>,
     <<<<"b", "o", "o", "l">>, <<"c", "h", "e", "c", "k", "b", "o", "x">>>>,
     <<<<"b", "o", "o", "l", "e", "a", "n">>, <<"c", "h", "e", "c", "k", "b", "o", "x">>>>,
     <<<<"s", "t", "r", "i", "n", "g">>, <<"t", "e", "x", "t">>>>,
     <<<<"c", "h", "a", "r">>, <<"t", "e", "x", "t">>>>,
     <<<<"g", "u", "i", "d">>, <<"t", "e", "x", "t">>>>,
     <<<<"u", "u", "i", "d">>, <<"t", "e", "x", "t">>>> >>

\* The first annotation, in source order, that holds a keyword decides.
getInputTypeForProperty_SourceOrder(type, attributes) ==
  LET lowType == ToLower(type)
      holds(i) == {k \in 1..Len(ATTRIBUTE_MAPPINGS) :
                     Includes(ToLower(attributes[i]), ATTRIBUTE_MAPPINGS[k][1])}
      byAttr == {i \in 1..Len(attributes) : holds(i) # {}}
      byType == {k \in 1..Len(TYPE_MAPPINGS) : Includes(lowType, TYPE_MAPPINGS[k][1])}
  IN  IF byAttr # {}
      THEN LET i == CHOOSE x \in byAttr : \A y \in byAttr : x <= y
           IN  ATTRIBUTE_MAPPINGS[CHOOSE k \in holds(i) : \A j \in holds(i) : k <= j][2]
      ELSE IF byType # {}
      THEN TYPE_MAPPINGS[CHOOSE k \in byType : \A j \in byType : k <= j][2]
      ELSE <<"t", "e", "x", "t">>

getInputTypeForProperty(type, attributes) ==
  LET lowType == ToLower(type)
      byAttr == {k \in 1..Len(ATTRIBUTE_MAPPINGS) :
                   \E i \in 1..Len(attributes) :
                     Includes(ToLower(attributes[i]), ATTRIBUTE_MAPPINGS[k][1])}
      byType == {k \in 1..Len(TYPE_MAPPINGS) : Includes(lowType, TYPE_MAPPINGS[k][1])}
  IN  IF byAttr # {}
      THEN ATTRIBUTE_MAPPINGS[CHOOSE k \in byAttr : \A j \in byAttr : k <= j][2]
      ELSE IF byType # {}
      THEN TYPE_MAPPINGS[CHOOSE k \in byType : \A j \in byType : k <= j][2]
      ELSE <<"t", "e", "x", "t">>

(***************************************************************************)
(* createModelProperty                                                     *)
(***************************************************************************)
HasWord(attributes, word) ==
  \E i \in 1..Len(attributes) : Includes(ToLower(attributes[i]), word)

\* Only the name Id itself, or a key annotation, makes a primary key.
createModelProperty_IdOnly(name, type, attributes) ==
  LET cleanType == cleanupType(type)
      isNullable == Includes(type, <<"?">>)
      isPrimaryKey ==
        \/ ToLower(name) = <<"i", "d">>
        \/ HasWord(attributes, <<"k", "e", "y">>)
      isRequired ==
        \/ (~isNullable /\ ~isPrimaryKey /\ ~HasWord(attributes, <<"r", "e", "q", "u", "i", "r", "e", "d">>))
        \/ HasWord(attributes, <<"r", "e", "q", "u", "i", "r", "e", "d">>)
      metadata == extractAttributeMetadata(attributes)
  IN  [name |-> name, type |-> cleanType, isPrimaryKey |-> isPrimaryKey,
       isRequired |-> isRequired, isNullable |-> isNullable,
       attributes |-> attributes,
       inputType |-> getInputTypeForProperty(cleanType, attributes),
       displayName |-> metadata.displayName, description |-> metadata.description,
       maxLength |-> metadata.maxLength, minLength |-> metadata.minLength]

\* A required annotation does not override the defaults.
createModelProperty_DefaultsWin(name, type, attributes) ==
  LET cleanType == cleanupType(type)
      isNullable == Includes(type, <<"?">>)
      isPrimaryKey ==
        \/ ToLower(name) = <<"i", "d">>
        \/ EndsWith(ToLower(name), <<"i", "d">>)
        \/ HasWord(attributes, <<"k", "e", "y">>)
      isRequired ==
        \/ (~isNullable /\ ~isPrimaryKey /\ ~HasWord(attributes, <<"r", "e", "q", "u", "i", "r", "e", "d">>))
      metadata == extractAttributeMetadata(attributes)
  IN  [name |-> name, type |-> cleanType, isPrimaryKey |-> isPrimaryKey,
       isRequired |-> isRequired, isNullable |-> isNullable,
       attributes |-> attributes,
       inputType |-> getInputTypeForProperty(cleanType, attributes),
       displayName |-> metadata.displayName, description |-> metadata.description,
       maxLength |-> metadata.maxLength, minLength |-> metadata.minLength]

createModelProperty(name, type, attributes) ==
  LET cleanType == cleanupType(type)
      isNullable == Includes(type, <<"?">>)
      isPrimaryKey ==
        \/ ToLower(name) = <<"i", "d">>
        \/ EndsWith(ToLower(name), <<"i", "d">>)
        \/ HasWord(attributes, <<"k", "e", "y">>)
      isRequired ==
        \/ (~isNullable /\ ~isPrimaryKey /\ ~HasWord(attributes, <<"r", "e", "q", "u", "i", "r", "e", "d">>))
        \/ HasWord(attributes, <<"r", "e", "q", "u", "i", "r", "e", "d">>)
      metadata == extractAttributeMetadata(attributes)
  IN  [name |-> name, type |-> cleanType, isPrimaryKey |-> isPrimaryKey,
       isRequired |-> isRequired, isNullable |-> isNullable,
       attributes |-> attributes,
       inputType |-> getInputTypeForProperty(cleanType, attributes),
       displayName |-> metadata.displayName, description |-> metadata.description,
       maxLength |-> metadata.maxLength, minLength |-> metadata.minLength]

(***************************************************************************)
(* parsePropertiesFromContent: the scan over the trimmed lines.            *)
(***************************************************************************)
ScanStart == [properties |-> <<>>, currentAttributes |-> <<>>,
              isInClass |-> FALSE, braceLevel |-> 0]

\* A skipped property leaves the pending annotations where they are.
ScanLine_SkipKeeps(st, line) ==
  IF \/ line = <<>>
     \/ StartsWith(line, <<"u", "s", "i", "n", "g", " ">>)
     \/ StartsWith(line, <<"n", "a", "m", "e", "s", "p", "a", "c", "e", " ">>)
  THEN st
  ELSE
    LET level == st.braceLevel + Count(line, "{") - Count(line, "}")
        counted == [st EXCEPT !.braceLevel = level]
        attr == AttributeMatch(line)
        prop == PropertyMatch(line)
    IN  IF ~st.isInClass /\ Includes(line, <<"c", "l", "a", "s", "s", " ">>)
        THEN [counted EXCEPT !.isInClass = TRUE]
        ELSE IF st.isInClass /\ level = 0
        THEN [counted EXCEPT !.isInClass = FALSE]
        ELSE IF ~st.isInClass
        THEN counted
        ELSE IF attr.matched /\ attr.body # <<>>
        THEN [counted EXCEPT !.currentAttributes = Append(@, attr.body)]
        ELSE IF prop.matched
        THEN IF shouldSkipProperty(Trim(prop.name), st.currentAttributes)
             THEN counted
             ELSE [counted EXCEPT
                     !.properties =
                       Append(@, createModelProperty(Trim(prop.name), Trim(prop.type),
                                                     st.currentAttributes)),
                     !.currentAttributes = <<>>]
        ELSE IF ~Includes(line, <<"[">>) /\ ~Includes(line, <<"{">>)
                /\ ~Includes(line, <<"}">>)
        THEN [counted EXCEPT !.currentAttributes = <<>>]
        ELSE counted

\* One iteration of the loop on the trimmed line.
ScanLine(st, line) ==
  IF \/ line = <<>>
     \/ StartsWith(line, <<"u", "s", "i", "n", "g", " ">>)
     \/ StartsWith(line, <<"n", "a", "m", "e", "s", "p", "a", "c", "e", " ">>)
  THEN st
  ELSE
    LET level == st.braceLevel + Count(line, "{") - Count(line, "}")
        counted == [st EXCEPT !.braceLevel = level]
        attr == AttributeMatch(line)
        prop == PropertyMatch(line)
    IN  IF ~st.isInClass /\ Includes(line, <<"c", "l", "a", "s", "s", " ">>)
        THEN [counted EXCEPT !.isInClass = TRUE]
        ELSE IF st.isInClass /\ level = 0
        THEN [counted EXCEPT !.isInClass = FALSE]
        ELSE IF ~st.isInClass
        THEN counted
        ELSE IF attr.matched /\ attr.body # <<>>
        THEN [counted EXCEPT !.currentAttributes = Append(@, attr.body)]
        ELSE IF prop.matched
        THEN IF shouldSkipProperty(Trim(prop.name), st.currentAttributes)
             THEN [counted EXCEPT !.currentAttributes = <<>>]
             ELSE [counted EXCEPT
                     !.properties =
                       Append(@, createModelProperty(Trim(prop.name), Trim(prop.type),
                                                     st.currentAttributes)),
                     !.currentAttributes = <<>>]
        ELSE IF ~Includes(line, <<"[">>) /\ ~Includes(line, <<"{">>)
                /\ ~Includes(line, <<"}">>)
        THEN [counted EXCEPT !.currentAttributes = <<>>]
        ELSE counted

RECURSIVE ScanLines(_, _, _)
ScanLines(st, lines, i) ==
  IF i > Len(lines) THEN st
  ELSE ScanLines(ScanLine(st, Trim(lines[i])), lines, i + 1)

parsePropertiesFromContent(content) ==
  ScanLines(ScanStart, Split(content, "\n"), 1).properties

(***************************************************************************)
(* extractPropertiesFromContent                                            *)
(***************************************************************************)
\* new RegExp(... className ...) throws a SyntaxError when the class name
\* leaves the pattern unbalanced: a parenthesis or a bracket in the name.
RegExpThrows(className) ==
  \E i \in 1..Len(className) : className[i] \in {"(", ")", "["}

\* The class pattern is matched and both branches scan the whole cleaned
\* text, so the result does not depend on the match.
extractPropertiesFromContent(content, className) ==
  IF RegExpThrows(className)
  THEN [threw |-> TRUE, properties |-> <<>>]
  ELSE [threw |-> FALSE, properties |-> parsePropertiesFromContent(cleanSourceCode(content))]

(***************************************************************************)
(* Inputs: type names, file paths, property sequences.                     *)
(***************************************************************************)
EmptyName == <<>>
BlankName == <<" ">>
DottedName == <<"N", ".">>
ProductName == <<"N", ".", "P">>
OrderName == <<"O">>
ArrayName == <<"P", "[">>

\* Type names handed to the cache directly (any string is accepted).
CacheTypes == {EmptyName, ProductName, OrderName}

\* Type names handed to parseModelProperties.
ParseTypes == {EmptyName, BlankName, DottedName, ProductName, ArrayName}

\* A path is the sequence of its segments.  The workspace holds the model
\* file of P, which the environment rewrites, removes and creates again, and
\* a file whose name makes the class pattern an invalid regular expression,
\* which stays as it is.
ModelsFile == << <<"M", "o", "d", "e", "l", "s">>, <<"P", ".", "c", "s">> >>
ArrayFile == << <<"M", "o", "d", "e", "l", "s">>, <<"P", "[", ".", "c", "s">> >>
WorkspaceFiles == <<ModelsFile, ArrayFile>>
AllFiles == {WorkspaceFiles[i] : i \in 1..Len(WorkspaceFiles)}
Files == {ModelsFile}

\* The source texts a model file may hold, by number.
SourceTexts ==
  << <<"p", "u", "b", "l", "i", "c", " ", "c", "l", "a", "s", "s", " ", "P", " ", "{", "\n", "p", "u", "b", "l", "i", "c", " ", "s", "t", "r", "i", "n", "g", " ", "N", "a", "m", "e", " ", "{", " ", "g", "e", "t", ";", " ", "s", "e", "t", ";", " ", "}", "\n", "}">>,
     <<"p", "u", "b", "l", "i", "c", " ", "c", "l", "a", "s", "s", " ", "P", " ", "{", "\n", "[", "K", "e", "y", "]", "\n", "p", "u", "b", "l", "i", "c", " ", "i", "n", "t", " ", "C", "o", "d", "e", " ", "{", " ", "g", "e", "t", ";", " ", "s", "e", "t", ";", " ", "}", "\n", "}">>,
     <<"/", "/", " ", "T", "O", "D", "O", "\n">> >>
SourceIds == 1..Len(SourceTexts)

\* Property sequences handed to ModelCache.set directly.
NameProperty == createModelProperty(<<"N", "a", "m", "e">>, <<"s", "t", "r", "i", "n", "g">>, <<>>)
SampleProps == {<<>>, <<NameProperty>>}

(***************************************************************************)
(* State.                                                                  *)
(***************************************************************************)
VARIABLES
  cache,     \* ModelCache.cache: the Map's entries in insertion order
  now,       \* Date.now()
  fs,        \* the file system: per path, whether it can be stat-ed and read,
             \* its modification time and the source text it holds
  lastCall,  \* the direct call of get or set the last step made (NoCall after
             \* any other step), with its arguments and what it returned
  cachedAt,  \* per type name, the time its current entry was stored (history)
  calls,     \* the parseModelProperties calls: where each one stands, its
             \* local variables, what it resolved to and its history
  scan,      \* a run of extractPropertiesFromContent on a source text: the
             \* cleaned lines, the loop's position and locals, the results
  mem        \* the array objects of the program: what each holds and who
             \* holds a reference to it

vars == <<cache, now, fs, lastCall, cachedAt, calls, scan, mem>>
cacheVars == <<cache, now, fs, lastCall, cachedAt, calls>>

cacheExpirationMs == 5 * 60 * 1000
TickMs == cacheExpirationMs

\* What get returns: the cached sequence, or undefined.
undefined == [hit |-> FALSE, properties |-> <<>>]
Found(p) == [hit |-> TRUE, properties |-> p]

\* A call of get or set as lastCall records it: result is what get returned,
\* branch the return statement it left by, threw whether it raised instead.
NoCall == [op |-> "none", modelType |-> <<>>, filePath |-> <<>>,
           result |-> undefined, branch |-> "none", threw |-> FALSE]
Call(op, T, F, r, branch, threw) ==
  [op |-> op, modelType |-> T, filePath |-> F, result |-> r,
   branch |-> branch, threw |-> threw]

\* A parseModelProperties call.  pc is the await it stands at ("finding":
\* at findModelFiles, "reading": at readFile, "parsing": the read has come
\* back), modelType, modelFile, cachedProperties and content are its local
\* variables, result and rejected are how its promise settled.  History: why
\* names the return statement taken, steps the steps done so far, statFailed
\* whether a stat made on its behalf failed, and undisturbed whether the call
\* began with no other call in flight and the files have not changed since.
Calls == 1..MaxCalls
IdleCall ==
  [pc |-> "idle", modelType |-> <<>>, modelFile |-> <<>>,
   cachedProperties |-> undefined, content |-> 0,
   result |-> <<>>, rejected |-> FALSE,
   why |-> "none", steps |-> <<>>, statFailed |-> FALSE, undisturbed |-> FALSE]
InFlight(call) == call.pc \in {"finding", "reading", "parsing"}
Resolve(call, result, why) ==
  [call EXCEPT !.pc = "done", !.result = result, !.why = why]
Did(call, step) == [call EXCEPT !.steps = Append(@, step)]

\* A change of the file system ends every call's undisturbed history.
Disturbed == [c \in Calls |-> [calls[c] EXCEPT !.undisturbed = FALSE]]

(***************************************************************************)
(* The Map: a sequence of entries, keys unique, order of first insertion.  *)
(***************************************************************************)
Keys(c) == {c[i].modelType : i \in 1..Len(c)}
HasEntry(c, T) == T \in Keys(c)
IndexOf(c, T) == CHOOSE i \in 1..Len(c) : c[i].modelType = T
EntryOf(c, T) == c[IndexOf(c, T)]

\* Map.prototype.delete
MapDelete(c, T) == SelectSeq(c, LAMBDA e : e.modelType # T)

\* Map.prototype.set: an existing key keeps its place, a new one goes last.
MapSet(c, e) ==
  IF HasEntry(c, e.modelType)
  THEN [c EXCEPT ![IndexOf(c, e.modelType)] = e]
  ELSE Append(c, e)

\* fs.statSync(filePath) succeeds
StatOk(F) == F \in DOMAIN fs /\ fs[F].exists

(***************************************************************************)
(* ModelCache.get: the Map after the call, the value returned, the return  *)
(* statement taken and whether the call threw.                             *)
(***************************************************************************)
GetOutcome(c, v, branch) == [cache |-> c, value |-> v, branch |-> branch, threw |-> FALSE]

\* Variants of get with a plausible slip each: the entry of a modified file
\* is reported missing but kept; the age of the entry is not looked at; the
\* entry survives a failed stat.
CacheGet_KeepsModified(c, T, F) ==
  IF ~HasEntry(c, T) THEN GetOutcome(c, undefined, "absent")
  ELSE IF ~StatOk(F) THEN GetOutcome(MapDelete(c, T), undefined, "stat-failed")
  ELSE IF fs[F].mtimeMs > EntryOf(c, T).lastModified
       THEN GetOutcome(c, undefined, "modified")
  ELSE IF now - EntryOf(c, T).lastModified > cacheExpirationMs
       THEN GetOutcome(MapDelete(c, T), undefined, "expired")
  ELSE GetOutcome(c, Found(EntryOf(c, T).properties), "hit")

CacheGet_NoExpiry(c, T, F) ==
  IF ~HasEntry(c, T) THEN GetOutcome(c, undefined, "absent")
  ELSE IF ~StatOk(F) THEN GetOutcome(MapDelete(c, T), undefined, "stat-failed")
  ELSE IF fs[F].mtimeMs > EntryOf(c, T).lastModified
       THEN GetOutcome(MapDelete(c, T), undefined, "modified")
  ELSE GetOutcome(c, Found(EntryOf(c, T).properties), "hit")

CacheGet_StatFailureKeeps(c, T, F) ==
  IF ~HasEntry(c, T) THEN GetOutcome(c, undefined, "absent")
  ELSE IF ~StatOk(F) THEN GetOutcome(c, undefined, "stat-failed")
  ELSE IF fs[F].mtimeMs > EntryOf(c, T).lastModified
       THEN GetOutcome(MapDelete(c, T), undefined, "modified")
  ELSE IF now - EntryOf(c, T).lastModified > cacheExpirationMs
       THEN GetOutcome(MapDelete(c, T), undefined, "expired")
  ELSE GetOutcome(c, Found(EntryOf(c, T).properties), "hit")

CacheGet(c, T, F) ==
  IF ~HasEntry(c, T) THEN GetOutcome(c, undefined, "absent")
  ELSE IF ~StatOk(F) THEN GetOutcome(MapDelete(c, T), undefined, "stat-failed")
  ELSE IF fs[F].mtimeMs > EntryOf(c, T).lastModified
       THEN GetOutcome(MapDelete(c, T), undefined, "modified")
  ELSE IF now - EntryOf(c, T).lastModified > cacheExpirationMs
       THEN GetOutcome(MapDelete(c, T), undefined, "expired")
  ELSE GetOutcome(c, Found(EntryOf(c, T).properties), "hit")

(***************************************************************************)
(* ModelCache.set: the Map after the call, whether an entry was stored and *)
(* whether the call threw.  The eviction runs before the stat.             *)
(***************************************************************************)
Evicted(c) ==
  IF Len(c) >= maxCacheSize /\ Len(c) > 0 /\ Truthy(c[1].modelType)
  THEN MapDelete(c, c[1].modelType)
  ELSE c

CacheSet(c, T, F, P) ==
  IF StatOk(F)
  THEN [cache |-> MapSet(Evicted(c),
                         [modelType |-> T, properties |-> P,
                          lastModified |-> fs[F].mtimeMs, filePath |-> F]),
        stored |-> TRUE, threw |-> FALSE]
  ELSE [cache |-> Evicted(c), stored |-> FALSE, threw |-> FALSE]

(***************************************************************************)
(* ModelCache.cleanup: the entries that survive the sweep.                 *)
(***************************************************************************)
\* A variant of cleanup with the comparison turned round.
CacheCleanup_Flipped(c) ==
  SelectSeq(c, LAMBDA e : ~(now - e.lastModified < cacheExpirationMs))

CacheCleanup(c) ==
  SelectSeq(c, LAMBDA e : ~(now - e.lastModified > cacheExpirationMs))

\* The history of store times follows the Map c left by a call: an entry
\* stored by the call is stamped now, a type name without entry has no time.
Stamp(c, T, stored) ==
  [U \in DOMAIN cachedAt |->
     IF ~HasEntry(c, U) THEN 0
     ELSE IF stored /\ U = T THEN now
     ELSE cachedAt[U]]

(***************************************************************************)
(* Direct calls of the cache's methods.                                    *)
(***************************************************************************)
Get(T, F) ==
  LET r == CacheGet(cache, T, F)
  IN  /\ cache' = r.cache
      /\ cachedAt' = Stamp(r.cache, T, FALSE)
      /\ lastCall' = Call("get", T, F, r.value, r.branch, r.threw)
      /\ UNCHANGED <<now, fs, calls, scan, mem>>

Set(T, F, P) ==
  LET r == CacheSet(cache, T, F, P)
  IN  /\ cache' = r.cache
      /\ cachedAt' = Stamp(r.cache, T, r.stored)
      /\ lastCall' = Call("set", T, F, undefined,
                          IF r.stored THEN "stored" ELSE "stat-failed", r.threw)
      /\ UNCHANGED <<now, fs, calls, scan, mem>>

Delete(T) ==
  /\ cache' = MapDelete(cache, T)
  /\ cachedAt' = Stamp(cache', T, FALSE)
  /\ lastCall' = NoCall
  /\ UNCHANGED <<now, fs, calls, scan, mem>>

Clear ==
  /\ cache' = <<>>
  /\ cachedAt' = Stamp(cache', <<>>, FALSE)
  /\ lastCall' = NoCall
  /\ UNCHANGED <<now, fs, calls, scan, mem>>

\* The setInterval callback.
Cleanup ==
  /\ cache' = CacheCleanup(cache)
  /\ cachedAt' = Stamp(cache', <<>>, FALSE)
  /\ lastCall' = NoCall
  /\ UNCHANGED <<now, fs, calls, scan, mem>>

(***************************************************************************)
(* The environment: the clock and the file system.                         *)
(***************************************************************************)
Tick ==
  /\ now < MaxTicks * TickMs
  /\ now' = now + TickMs
  /\ lastCall' = NoCall
  /\ UNCHANGED <<cache, fs, cachedAt, calls, scan, mem>>

\* Another process writes the file: its modification time becomes the
\* current time, which is later than the previous modification.
WriteFile(F, s) ==
  /\ fs[F].exists
  /\ now > fs[F].mtimeMs
  /\ fs' = [fs EXCEPT ![F] = [exists |-> TRUE, mtimeMs |-> now, content |-> s]]
  /\ lastCall' = NoCall
  /\ calls' = Disturbed
  /\ UNCHANGED <<cache, now, cachedAt, scan, mem>>

\* The file is removed or made inaccessible: stat and read fail.
RemoveFile(F) ==
  /\ fs[F].exists
  /\ fs' = [fs EXCEPT ![F].exists = FALSE]
  /\ lastCall' = NoCall
  /\ calls' = Disturbed
  /\ UNCHANGED <<cache, now, cachedAt, scan, mem>>

\* The file is created again, later than it was last modified.
CreateFile(F, s) ==
  /\ ~fs[F].exists
  /\ now > fs[F].mtimeMs
  /\ fs' = [fs EXCEPT ![F] = [exists |-> TRUE, mtimeMs |-> now, content |-> s]]
  /\ lastCall' = NoCall
  /\ calls' = Disturbed
  /\ UNCHANGED <<cache, now, cachedAt, scan, mem>>

(***************************************************************************)
(* extractPropertiesFromContent, one iteration of the scanner's loop at a  *)
(* time.  A source text is a class of name P whose body is made of lines   *)
(* of BodyLines.                                                           *)
(***************************************************************************)
BodyLines ==
  << <<"p", "u", "b", "l", "i", "c", " ", "i", "n", "t", " ", "I", "d", " ", "{", " ", "g", "e", "t", ";", " ", "s", "e", "t", ";", " ", "}">>,
     <<"p", "u", "b", "l", "i", "c", " ", "s", "t", "r", "i", "n", "g", " ", "N", "a", "m", "e", " ", "{", " ", "g", "e", "t", ";", " ", "s", "e", "t", ";", " ", "}">>,
     <<"p", "u", "b", "l", "i", "c", " ", "s", "t", "r", "i", "n", "g", "?", " ", "N", "o", "t", "e", " ", "{", " ", "g", "e", "t", ";", " ", "s", "e", "t", ";", " ", "}">>,
     <<"p", "u", "b", "l", "i", "c", " ", "i", "n", "t", " ", "P", "r", "o", "d", "u", "c", "t", "I", "d", " ", "{", " ", "g", "e", "t", ";", " ", "s", "e", "t", ";", " ", "}">>,
     <<"p", "u", "b", "l", "i", "c", " ", "D", "a", "t", "e", "T", "i", "m", "e", " ", "C", "r", "e", "a", "t", "e", "d", "A", "t", " ", "{", " ", "g", "e", "t", ";", " ", "s", "e", "t", ";", " ", "}">>,
     <<"[", "K", "e", "y", "]">>,
     <<"[", "R", "e", "q", "u", "i", "r", "e", "d", "]">>,
     <<"[", "N", "o", "t", "M", "a", "p", "p", "e", "d", "]">>,
     <<"[", "E", "m", "a", "i", "l", "A", "d", "d", "r", "e", "s", "s", "]">>,
     <<"[", "U", "r", "l", "]">>,
     <<"[", "M", "a", "x", "L", "e", "n", "g", "t", "h", "(", "1", "0", "0", ")", "]">>,
     <<"[", "M", "i", "n", "L", "e", "n", "g", "t", "h", "(", "5", ")", "]">>,
     <<"p", "u", "b", "l", "i", "c", " ", "v", "o", "i", "d", " ", "M", "(", ")", " ", "{", " ", "}">>,
     <<"/", "*", " ", "a">>,
     <<"b", " ", "*", "/">>,
     <<"/", "/", " ", "n", "o", "t", "e">>,
     <<"v", "a", "r", " ", "s", " ", "=", " ", "@", "\"", "a">>,
     <<"b", "\"", ";">>,
     <<"p", "u", "b", "l", "i", "c", " ", "i", "n", "t", "?", " ", "A", "g", "e", " ", "{", " ", "g", "e", "t", ";", " ", "s", "e", "t", ";", " ", "}">>,
     <<"p", "u", "b", "l", "i", "c", " ", "L", "i", "s", "t", "<", "i", "n", "t", "?", ">", " ", "I", "t", "e", "m", "s", " ", "{", " ", "g", "e", "t", ";", " ", "s", "e", "t", ";", " ", "}">>,
     <<"[", "D", "i", "s", "p", "l", "a", "y", "(", "N", "a", "m", "e", " ", "=", " ", "\"", "X", "\"", ")", "]">>,
     <<"[", "D", "e", "s", "c", "r", "i", "p", "t", "i", "o", "n", "(", "\"", "X", "\"", ")", "]">>,
     <<"p", "u", "b", "l", "i", "c", " ", "s", "t", "r", "i", "n", "g", " ", "S", "i", "t", "e", " ", "{", " ", "g", "e", "t", ";", " ", "s", "e", "t", ";", " ", "}", " ", "=", " ", "\"", "x", "/", "/", "y", "\"", ";">>,
     <<"p", "u", "b", "l", "i", "c", " ", "s", "t", "r", "i", "n", "g", " ", "N", "o", "t", "e", " ", "{", " ", "g", "e", "t", ";", " ", "s", "e", "t", ";", " ", "}", " ", "=", " ", "\"", "z", "\"", ";">> >>

\* The lines the class bodies are made of, and the lines the members of a
\* class in a source file are taken from.
BodyPool == 1..18
MemberPool == {2} \cup 19..24

\* The same lines with other interiors in their string literals.
VariantLines ==
  [k \in 1..Len(BodyLines) |->
     CASE k = 21 -> <<"[", "D", "i", "s", "p", "l", "a", "y", "(", "N", "a", "m", "e", " ", "=", " ", "\"", "Y", "\"", ")", "]">>
       [] k = 22 -> <<"[", "D", "e", "s", "c", "r", "i", "p", "t", "i", "o", "n", "(", "\"", "Y", "\"", ")", "]">>
       [] k = 23 -> <<"p", "u", "b", "l", "i", "c", " ", "s", "t", "r", "i", "n", "g", " ", "S", "i", "t", "e", " ", "{", " ", "g", "e", "t", ";", " ", "s", "e", "t", ";", " ", "}", " ", "=", " ", "\"", "x", "-", "-", "y", "\"", ";">>
       [] k = 24 -> <<"p", "u", "b", "l", "i", "c", " ", "s", "t", "r", "i", "n", "g", " ", "N", "o", "t", "e", " ", "{", " ", "g", "e", "t", ";", " ", "s", "e", "t", ";", " ", "}", " ", "=", " ", "\"", "w", "\"", ";">>
       [] OTHER -> BodyLines[k]]

\* The frame around the members: a class alone, a class in a namespace
\* block with the braces on the lines of the keywords, the same with the
\* braces on lines of their own.
Frame ==
  [layout \in {"flat", "block", "allman"} |->
     CASE layout = "flat" -> [head |-> <<<<"p", "u", "b", "l", "i", "c", " ", "c", "l", "a", "s", "s", " ", "P", " ", "{">>>>, tail |-> <<>>]
       [] layout = "block" -> [head |-> <<<<"n", "a", "m", "e", "s", "p", "a", "c", "e", " ", "N", " ", "{">>, <<"p", "u", "b", "l", "i", "c", " ", "c", "l", "a", "s", "s", " ", "P", " ", "{">>>>, tail |-> <<<<"}">>>>]
       [] layout = "allman" -> [head |-> <<<<"n", "a", "m", "e", "s", "p", "a", "c", "e", " ", "N">>, <<"{">>, <<"p", "u", "b", "l", "i", "c", " ", "c", "l", "a", "s", "s", " ", "P">>, <<"{">>>>, tail |-> <<<<"}">>>>]]

\* A member line that follows the closing brace of the class.
ExtraLine == <<"p", "u", "b", "l", "i", "c", " ", "s", "t", "r", "i", "n", "g", " ", "E", "x", "t", "r", "a", " ", "{", " ", "g", "e", "t", ";", " ", "s", "e", "t", ";", " ", "}">>

ClassP == <<"P">>
ClassQ == <<"Q">>
ClassHead == <<"p", "u", "b", "l", "i", "c", " ", "c", "l", "a", "s", "s", " ", "P", " ", "{">>
ClassTail == <<"}">>

\* The class bodies: up to MaxLines lines, by their numbers in BodyLines.
Bodies == UNION {[1..n -> BodyPool] : n \in 0..MaxLines}

\* The source files: a layout, up to MaxMembers member lines, a line
\* after the class or none, the string literals as written or varied.
Sources ==
  [layout : DOMAIN Frame, body : UNION {[1..n -> MemberPool] : n \in 0..MaxMembers},
   after : BOOLEAN, variant : {FALSE}]

RECURSIVE JoinLines(_, _)
JoinLines(lines, i) ==
  IF i > Len(lines) THEN <<>>
  ELSE IF i = Len(lines) THEN lines[i]
  ELSE lines[i] \o <<"\n">> \o JoinLines(lines, i + 1)

\* The source text of a class body.
TextOf(body) ==
  JoinLines(<<ClassHead>> \o [k \in 1..Len(body) |-> BodyLines[body[k]]] \o <<ClassTail>>, 1)

(***************************************************************************)
(* The array objects behind the property sequences.  A reference is the   *)
(* number of an object in the heap; `entry` is the reference kept in the   *)
(* cache entry of the one type name considered, 0 when the cache has no    *)
(* entry; `held` are the references callers were given; `stored` is what   *)
(* the entry's array held when set stored it; `pushed` counts the elements *)
(* callers added.                                                          *)
(***************************************************************************)
EmptyMemory ==
  [heap |-> <<>>, entry |-> 0, held |-> {}, stored |-> <<>>, pushed |-> 0]

\* Line 59: the entry keeps the reference it is given (`properties,`).
cacheSetReference(m, ref) == [m EXCEPT !.entry = ref, !.stored = m.heap[ref]]

\* Line 35: a hit hands out the entry's own array.
cacheGetReference(m) == m.entry

\* Lines 197-203: the array extractPropertiesFromContent made is stored
\* and returned, one object for both.
parseMissReferences(m, properties) ==
  LET ref == Len(m.heap) + 1
      made == [m EXCEPT !.heap = Append(@, properties)]
  IN  [cacheSetReference(made, ref) EXCEPT !.held = @ \cup {ref}]

\* Lines 190-193: the array get returned is what the caller receives.
parseHitReferences(m) == [m EXCEPT !.held = @ \cup {cacheGetReference(m)}]

\* A call of parseModelProperties that finds no entry.
ParseMiss(properties) ==
  /\ mem.entry = 0
  /\ Len(mem.heap) < MaxArrays
  /\ mem' = parseMissReferences(mem, properties)
  /\ UNCHANGED <<cacheVars, scan>>

\* A call of parseModelProperties that is a hit.
ParseHit ==
  /\ mem.entry # 0
  /\ mem' = parseHitReferences(mem)
  /\ UNCHANGED <<cacheVars, scan>>

\* A caller adds an element to an array it received.
CallerPush(ref) ==
  /\ ref \in mem.held
  /\ mem.pushed < MaxPushed
  /\ mem' = [mem EXCEPT !.heap[ref] = Append(@, NameProperty), !.pushed = @ + 1]
  /\ UNCHANGED <<cacheVars, scan>>

\* A caller lets go of an array it received.
CallerDrop(ref) ==
  /\ ref \in mem.held
  /\ mem' = [mem EXCEPT !.held = @ \ {ref}]
  /\ UNCHANGED <<cacheVars, scan>>

\* Lines 24-32, 72-74: the entry is deleted (file changed, expired, delete).
EntryDeleted ==
  /\ mem.entry # 0
  /\ mem' = [mem EXCEPT !.entry = 0, !.stored = <<>>]
  /\ UNCHANGED <<cacheVars, scan>>

\* The text of a source file.
FileText(source) ==
  JoinLines(Frame[source.layout].head
              \o [k \in 1..Len(source.body) |->
                    IF source.variant THEN VariantLines[source.body[k]]
                    ELSE BodyLines[source.body[k]]]
              \o <<ClassTail>>
              \o (IF source.after THEN <<ExtraLine>> ELSE <<>>)
              \o Frame[source.layout].tail, 1)

\* Lines 270-275: the class pattern, matched whatever the case, for a class
\* name made of letters:
\* class\s+NAME(?:\s*:\s*[\w<>,\s]+)?\s*\{  (the optional words before
\* `class` do not change whether there is a match).
ClassMatchAt(low, i, name) ==
  /\ At(low, i, <<"c", "l", "a", "s", "s">>)
  /\ RunEnd(low, i + 5, Space) >= i + 5
  /\ LET BaseListChar == IdentChar \cup {"<", ">", ","} \cup Space
         k == RunEnd(low, i + 5, Space) + 1
         m == k + Len(name)
         q == RunEnd(low, m, Space) + 1
     IN  /\ At(low, k, name)
         /\ \/ q <= Len(low) /\ low[q] = "{"
            \/ /\ q <= Len(low) /\ low[q] = ":"
               /\ RunEnd(low, q + 1, BaseListChar) >= q + 1
               /\ RunEnd(low, q + 1, BaseListChar) < Len(low)
               /\ low[RunEnd(low, q + 1, BaseListChar) + 1] = "{"

ClassMatch(cleanContent, className) ==
  \E i \in 1..Len(cleanContent) :
    ClassMatchAt(ToLower(cleanContent), i, ToLower(className))

\* Only the text of a file in which the class is found is scanned.
contentToParse_ClassOnly(cleanContent, classMatch) ==
  IF ~classMatch THEN <<>> ELSE cleanContent

\* Lines 276-281: both branches scan the whole cleaned text.
contentToParse(cleanContent, classMatch) ==
  IF ~classMatch THEN cleanContent ELSE cleanContent

\* No run yet.
IdleScan ==
  [pc |-> "idle", body |-> <<>>, layout |-> "flat", after |-> FALSE,
   variant |-> FALSE, className |-> <<>>, classMatch |-> FALSE,
   lines |-> <<>>, i |-> 0, st |-> ScanStart, results |-> <<>>]

\* The pending annotations of the call before are kept.
scanLocals_Carried(previous) ==
  [ScanStart EXCEPT !.currentAttributes = previous.currentAttributes]

\* Lines 300-304: the loop's locals are made anew by every call,
\* whatever an earlier call left.
scanLocals(previous) == ScanStart

\* Lines 276-304: the text to scan is split, the locals are set up.
scanMatched(cleanContent, classMatch, className, source, previous, results) ==
  [pc |-> "scanning", body |-> source.body, layout |-> source.layout,
   after |-> source.after, variant |-> source.variant,
   className |-> className, classMatch |-> classMatch,
   lines |-> Split(contentToParse(cleanContent, classMatch), "\n"),
   i |-> 1, st |-> scanLocals(previous), results |-> results]

\* Lines 270-275: the class pattern is matched against the cleaned text.
scanCleaned(cleanContent, className, source, previous, results) ==
  scanMatched(cleanContent, ClassMatch(cleanContent, className), className,
              source, previous, results)

\* Lines 267-301 for a class body: the text is cleaned first.
scanBegin(body, previous, results) ==
  scanCleaned(cleanSourceCode(TextOf(body)), ClassP,
              [layout |-> "flat", body |-> body, after |-> FALSE, variant |-> FALSE],
              previous, results)

\* Lines 267-301 for a source file.
scanFile(source, className, previous, results) ==
  scanCleaned(cleanSourceCode(FileText(source)), className, source,
              previous, results)

\* extractPropertiesFromContent is called on a source text.
Extract(body) ==
  /\ scan.pc = "idle"
  /\ scan' = scanBegin(body, scan.st, <<>>)
  /\ UNCHANGED <<cacheVars, mem>>

\* Lines 306-365: one iteration of the loop.
ScanStep ==
  /\ scan.pc = "scanning"
  /\ scan.i <= Len(scan.lines)
  /\ scan' = [scan EXCEPT !.st = ScanLine(scan.st, Trim(scan.lines[scan.i])),
                          !.i = @ + 1]
  /\ UNCHANGED <<cacheVars, mem>>

\* Line 367: the loop is over and the properties are returned.
ScanReturn ==
  /\ scan.pc = "scanning"
  /\ scan.i > Len(scan.lines)
  /\ scan' = [scan EXCEPT !.pc = "done", !.results = Append(@, scan.st.properties)]
  /\ UNCHANGED <<cacheVars, mem>>

\* extractPropertiesFromContent is called on the text of a source file.
ExtractFile(source, className) ==
  /\ scan.pc = "idle"
  /\ scan' = scanFile(source, className, scan.st, <<>>)
  /\ UNCHANGED <<cacheVars, mem>>

\* It is called once more on the same text, for another class name.
ExtractFor(className) ==
  /\ scan.pc = "done"
  /\ Len(scan.results) < 2
  /\ className # scan.className
  /\ scan' = scanFile([layout |-> scan.layout, body |-> scan.body,
                       after |-> scan.after, variant |-> scan.variant],
                      className, scan.st, scan.results)
  /\ UNCHANGED <<cacheVars, mem>>

\* It is called once more for the same class name, on the text with other
\* interiors in its string literals.
ExtractVariant ==
  /\ scan.pc = "done"
  /\ Len(scan.results) < 2
  /\ scan' = scanFile([layout |-> scan.layout, body |-> scan.body,
                       after |-> scan.after, variant |-> TRUE],
                      scan.className, scan.st, scan.results)
  /\ UNCHANGED <<cacheVars, mem>>

\* extractPropertiesFromContent is called once more on the same text.
ExtractAgain ==
  /\ scan.pc = "done"
  /\ Len(scan.results) < 2
  /\ scan' = scanBegin(scan.body, scan.st, scan.results)
  /\ UNCHANGED <<cacheVars, mem>>

(***************************************************************************)
(* findModelFiles and selectBestModelFile.                                 *)
(***************************************************************************)
\* The name every search pattern ends with: `${className}.cs`
FileNameOf(className) == className \o <<".", "c", "s">>

\* The k-th of the six search patterns matches the path.  A path's last
\* segment is the file's name, the ones before are its folders, and `**`
\* stands for any number of folders.
NumPatterns == 6
PatternMatches(k, path, className) ==
  LET n == Len(path)
      named == n > 0 /\ path[n] = FileNameOf(className)
      parent == IF n > 1 THEN path[n - 1] ELSE <<>>
  IN  /\ named
      /\ CASE k = 1 -> TRUE
           [] k = 2 -> n > 1 /\ parent = <<"M", "o", "d", "e", "l", "s">>
           [] k = 3 -> \E i \in 1..(n - 1) : path[i] = <<"M", "o", "d", "e", "l", "s">>
           [] k = 4 -> n > 1 /\ Includes(parent, <<"M", "o", "d", "e", "l", "s">>)
           [] k = 5 -> n > 1 /\ parent = <<"E", "n", "t", "i", "t", "i", "e", "s">>
           [] k = 6 -> n > 1 /\ parent = <<"D", "o", "m", "a", "i", "n">>

\* vscode.workspace.findFiles: the workspace's files that exist and match.
findFiles(k, className) ==
  SelectSeq(WorkspaceFiles,
            LAMBDA path : fs[path].exists /\ PatternMatches(k, path, className))

\* The files of the first pattern that finds any; none if no pattern does.
findModelFiles(className) ==
  LET hits == {k \in 1..NumPatterns : Len(findFiles(k, className)) > 0}
  IN  IF hits = {} THEN <<>>
      ELSE findFiles(CHOOSE k \in hits : \A j \in hits : k <= j, className)

\* fsPath.includes(folder): the folder's name occurs in some segment.
PathIncludes(path, folder) == \E i \in 1..Len(path) : Includes(path[i], folder)

preferredFolders == << <<"M", "o", "d", "e", "l", "s">>, <<"E", "n", "t", "i", "t", "i", "e", "s">>, <<"D", "o", "m", "a", "i", "n">> >>

\* Called with at least one file.
selectBestModelFile(files) ==
  IF Len(files) = 1 THEN files[1]
  ELSE LET preferred(folder) == {i \in 1..Len(files) : PathIncludes(files[i], folder)}
           found == {f \in 1..Len(preferredFolders) : preferred(preferredFolders[f]) # {}}
       IN  IF found = {} THEN files[1]
           ELSE LET f == CHOOSE g \in found : \A h \in found : g <= h
                    among == preferred(preferredFolders[f])
                IN  files[CHOOSE i \in among : \A j \in among : i <= j]

(***************************************************************************)
(* parseModelProperties, from one await to the next.                       *)
(***************************************************************************)
\* What extractPropertiesFromContent makes of each source text.
ClassNames == {SplitPop(T, ".") : T \in ParseTypes}
Extracted ==
  [s \in SourceIds |->
     [className \in ClassNames |->
        extractPropertiesFromContent(SourceTexts[s], className)]]

\* Lines 170-178: the guards on the type name and the class name, up to the
\* call of findModelFiles.
\* A variant that tests the type name without trimming it.
parseStart_NoTrim(call) ==
  IF ~Truthy(call.modelType) THEN Resolve(call, <<>>, "no-type-name")
  ELSE IF ~Truthy(SplitPop(call.modelType, ".")) THEN Resolve(call, <<>>, "no-class-name")
  ELSE [call EXCEPT !.pc = "finding"]

parseStart(call) ==
  IF ~Truthy(Trim(call.modelType)) THEN Resolve(call, <<>>, "no-type-name")
  ELSE IF ~Truthy(SplitPop(call.modelType, ".")) THEN Resolve(call, <<>>, "no-class-name")
  ELSE [call EXCEPT !.pc = "finding"]

\* Lines 182-197: findModelFiles has come back; the file is chosen and the
\* cache consulted (any array the cache returns is truthy), up to the call of
\* readFile.  Gives the call and the Map as the step leaves them.
\* A variant that goes on to read the file whatever the cache returned.
parseLocated_IgnoresHit(call, c) ==
  LET files == findModelFiles(SplitPop(call.modelType, "."))
      modelFile == selectBestModelFile(files)
      r == CacheGet(c, call.modelType, modelFile)
      located == [Did(call, "locate") EXCEPT !.modelFile = IF Len(files) = 0 THEN <<>> ELSE modelFile]
      consulted == [Did(located, "get") EXCEPT
                      !.cachedProperties = r.value,
                      !.statFailed = (r.branch = "stat-failed")]
  IN  IF Len(files) = 0
      THEN [call |-> Resolve(located, <<>>, "not-found"), cache |-> c]
      ELSE [call |-> [consulted EXCEPT !.pc = "reading"], cache |-> r.cache]

parseLocated(call, c) ==
  LET files == findModelFiles(SplitPop(call.modelType, "."))
      modelFile == selectBestModelFile(files)
      r == CacheGet(c, call.modelType, modelFile)
      located == [Did(call, "locate") EXCEPT !.modelFile = IF Len(files) = 0 THEN <<>> ELSE modelFile]
      consulted == [Did(located, "get") EXCEPT
                      !.cachedProperties = r.value,
                      !.statFailed = (r.branch = "stat-failed")]
  IN  IF Len(files) = 0
      THEN [call |-> Resolve(located, <<>>, "not-found"), cache |-> c]
      ELSE [call |-> IF r.value.hit
                     THEN Resolve(consulted, r.value.properties, "hit")
                     ELSE [consulted EXCEPT !.pc = "reading"],
            cache |-> r.cache]

\* Line 197: readFile settles; a failure is caught at line 204.
\* A variant without the catch: a failed read rejects the call.
Reject(call, why) ==
  [call EXCEPT !.pc = "done", !.rejected = TRUE, !.why = why]

parseRead_Uncaught(call) ==
  IF fs[call.modelFile].exists
  THEN [Did(call, "read") EXCEPT !.pc = "parsing", !.content = fs[call.modelFile].content]
  ELSE Reject(Did(call, "read"), "read-failed")

parseRead(call) ==
  IF fs[call.modelFile].exists
  THEN [Did(call, "read") EXCEPT !.pc = "parsing", !.content = fs[call.modelFile].content]
  ELSE Resolve(Did(call, "read"), <<>>, "read-failed")

\* Lines 200-203, with x what the extraction gave: the cache write and the
\* return; an exception of the extraction is caught at line 204.  Gives the
\* call and the Map as the step leaves them, and whether the cache write
\* stored an entry.
parseStore(call, c, x, r) ==
  IF x.threw
  THEN [call |-> Resolve(Did(call, "extract"), <<>>, "extract-threw"),
        cache |-> c, stored |-> FALSE]
  ELSE [call |-> Resolve([Did(Did(call, "extract"), "set") EXCEPT
                            !.statFailed = @ \/ ~r.stored],
                         x.properties, "extracted"),
        cache |-> r.cache,
        stored |-> r.stored]

\* Lines 198-203: extraction, the cache write and the return.
parseExtracted(call, c, x) ==
  parseStore(call, c, x, CacheSet(c, call.modelType, call.modelFile, x.properties))

parseFinish(call, c) ==
  parseExtracted(call, c, Extracted[call.content][SplitPop(call.modelType, ".")])

\* A call is made.  It is undisturbed if no other call is in flight, and the
\* calls in flight are no longer alone.
Start(c, T) ==
  /\ ~InFlight(calls[c])
  /\ LET alone == \A d \in Calls \ {c} : ~InFlight(calls[d])
         fresh == [IdleCall EXCEPT !.modelType = T, !.undisturbed = alone]
     IN  calls' = [d \in Calls |->
                     IF d = c THEN parseStart(fresh)
                     ELSE IF InFlight(calls[d]) THEN [calls[d] EXCEPT !.undisturbed = FALSE]
                     ELSE calls[d]]
  /\ lastCall' = NoCall
  /\ UNCHANGED <<cache, now, fs, cachedAt, scan, mem>>

Located(c) ==
  /\ calls[c].pc = "finding"
  /\ LET r == parseLocated(calls[c], cache)
     IN  /\ calls' = [calls EXCEPT ![c] = r.call]
         /\ cache' = r.cache
         /\ cachedAt' = Stamp(r.cache, calls[c].modelType, FALSE)
  /\ lastCall' = NoCall
  /\ UNCHANGED <<now, fs, scan, mem>>

Read(c) ==
  /\ calls[c].pc = "reading"
  /\ calls' = [calls EXCEPT ![c] = parseRead(calls[c])]
  /\ lastCall' = NoCall
  /\ UNCHANGED <<cache, now, fs, cachedAt, scan, mem>>

Finish(c) ==
  /\ calls[c].pc = "parsing"
  /\ \E r \in {parseFinish(calls[c], cache)} :
       /\ calls' = [calls EXCEPT ![c] = r.call]
       /\ cache' = r.cache
       /\ cachedAt' = Stamp(r.cache, calls[c].modelType, r.stored)
  /\ lastCall' = NoCall
  /\ UNCHANGED <<now, fs, scan, mem>>

(***************************************************************************)
(* The cache under direct calls.                                           *)
(***************************************************************************)
Init ==
  /\ cache = <<>>
  /\ now = 0
  /\ fs = [F \in AllFiles |-> [exists |-> TRUE, mtimeMs |-> 0, content |-> 1]]
  /\ lastCall = NoCall
  /\ cachedAt = [T \in CacheTypes |-> 0]
  /\ calls = [c \in Calls |-> IdleCall]
  /\ scan = IdleScan
  /\ mem = EmptyMemory

CacheNextIn(types, files) ==
  \/ \E T \in types, F \in files : Get(T, F)
  \/ \E T \in types, F \in files, P \in SampleProps : Set(T, F, P)
  \/ \E T \in types : Delete(T)
  \/ Clear
  \/ Cleanup
  \/ Tick
  \/ \E F \in files : WriteFile(F, fs[F].content)
  \/ \E F \in files : RemoveFile(F)
  \/ \E F \in files : CreateFile(F, fs[F].content)

CacheNextOver(types) == CacheNextIn(types, Files)

CacheNext == CacheNextOver(CacheTypes)

CacheSpec == Init /\ [][CacheNext]_vars

\* The same calls on the type names that can be evicted, with the interval
\* timer's callback scheduled fairly: while an entry is expired the callback
\* changes the state, and the timer fires every 60 s (cache.ts line 112).
SweepTypes == {ProductName, OrderName}
SweepNext == CacheNextOver(SweepTypes)
SweepSpec == Init /\ [][SweepNext]_vars /\ WF_vars(Cleanup)

\* The same calls for one type name and two files.
PathNext == CacheNextIn({ProductName}, AllFiles)
PathSpec == Init /\ [][PathNext]_vars

(***************************************************************************)
(* parseModelProperties calls, the interval timer and the environment.     *)
(***************************************************************************)
ParseNext ==
  \/ \E c \in Calls, T \in ParseTypes : Start(c, T)
  \/ \E c \in Calls : Located(c)
  \/ \E c \in Calls : Read(c)
  \/ \E c \in Calls : Finish(c)
  \/ Cleanup
  \/ Tick
  \/ \E F \in Files, s \in SourceIds : WriteFile(F, s)
  \/ \E F \in Files : RemoveFile(F)
  \/ \E F \in Files, s \in SourceIds : CreateFile(F, s)

ParseSpec == Init /\ [][ParseNext]_vars

(***************************************************************************)
(* Runs of the extraction on the class bodies.                             *)
(***************************************************************************)
ScanNext ==
  \/ \E body \in Bodies : Extract(body)
  \/ ScanStep
  \/ ScanReturn
  \/ ExtractAgain

ScanSpec == Init /\ [][ScanNext]_vars

(***************************************************************************)
(* Runs of the extraction on source files, for two class names.            *)
(***************************************************************************)
FileNext ==
  \/ \E source \in Sources, className \in {ClassP, ClassQ} :
       ExtractFile(source, className)
  \/ ScanStep
  \/ ScanReturn
  \/ \E className \in {ClassP, ClassQ} : ExtractFor(className)
  \/ ExtractVariant

FileSpec == Init /\ [][FileNext]_vars

(***************************************************************************)
(* Callers and the cache sharing array objects.                            *)
(***************************************************************************)
AliasNext ==
  \/ \E properties \in SampleProps : ParseMiss(properties)
  \/ ParseHit
  \/ \E ref \in 1..MaxArrays : CallerPush(ref)
  \/ \E ref \in 1..MaxArrays : CallerDrop(ref)
  \/ EntryDeleted

AliasSpec == Init /\ [][AliasNext]_vars

(***************************************************************************)
(* Claims about the cache.                                                 *)
(***************************************************************************)
\* The entry of T was stored more than the expiration window ago.
Aged(T) == HasEntry(cache, T) /\ now - cachedAt[T] > cacheExpirationMs

\* C1 (as stated): for every type name, statable file and property
\* sequence, a get called right after a set of the same name and file, with
\* the file untouched in between, returns the sequence that was set.
C1_SetThenGetReturnsP ==
  [][\A T \in CacheTypes, F \in Files, P \in SampleProps :
       (Set(T, F, P) /\ StatOk(F)) =>
         (CacheGet(cache, T, F).value = Found(P))']_vars

\* C2: a get of T that finds the file's modification time beyond the one
\* recorded in T's entry returns a miss and removes the entry; a get of a
\* name without entry is a miss and leaves it absent; and only a set of T
\* brings an entry for T back.
C2_ModifiedFileIsMiss ==
  [][/\ (/\ lastCall'.op = "get"
         /\ HasEntry(cache, lastCall'.modelType)
         /\ StatOk(lastCall'.filePath)
         /\ fs[lastCall'.filePath].mtimeMs
              > EntryOf(cache, lastCall'.modelType).lastModified)
        => (lastCall'.result = undefined /\ ~HasEntry(cache', lastCall'.modelType))
     /\ (lastCall'.op = "get" /\ ~HasEntry(cache, lastCall'.modelType))
        => (lastCall'.result = undefined /\ ~HasEntry(cache', lastCall'.modelType))
     /\ \A T \in CacheTypes :
          (~HasEntry(cache, T) /\ HasEntry(cache', T))
          => (lastCall'.op = "set" /\ lastCall'.modelType = T)]_vars

C2_Witness ==
  /\ lastCall.op = "get"
  /\ lastCall.branch = "modified"
  /\ ~lastCall.result.hit
  /\ ~HasEntry(cache, lastCall.modelType)

C4_SizeBounded == Len(cache) <= maxCacheSize

\* C5: when the stat of the file fails, get returns a miss, leaves no entry
\* for the type name and does not throw; set does not throw and stores no
\* new entry for the type name (an entry it has afterwards is the one it had).
C5_StatFailure ==
  [][LET T == lastCall'.modelType
     IN  /\ (lastCall'.op = "get" /\ ~StatOk(lastCall'.filePath))
            => /\ lastCall'.result = undefined
               /\ ~lastCall'.threw
               /\ ~HasEntry(cache', T)
         /\ (lastCall'.op = "set" /\ ~StatOk(lastCall'.filePath))
            => /\ ~lastCall'.threw
               /\ HasEntry(cache', T) =>
                    (HasEntry(cache, T) /\ EntryOf(cache', T) = EntryOf(cache, T))]_vars

C5_Witness ==
  /\ lastCall.op = "get"
  /\ lastCall.branch = "stat-failed"
  /\ ~StatOk(lastCall.filePath)
  /\ ~HasEntry(cache, lastCall.modelType)

\* C6: with the sweep scheduled fairly, an entry stored more than the
\* expiration window ago is eventually gone (removed, or replaced by a
\* fresh one), whatever else is or is not called.
C6_AgedEntryEventuallyRemoved ==
  \A T \in SweepTypes : Aged(T) ~> ~Aged(T)

C6_Witness ==
  \E T \in SweepTypes : Aged(T) /\ lastCall = NoCall

(***************************************************************************)
(* Claims about parseModelProperties.                                      *)
(***************************************************************************)
ClassOf(call) == SplitPop(call.modelType, ".")
Done(c) == calls[c].pc = "done"
\* No read of the call has come back with a text.
ReadNothing(call) == call.content = 0
IsPrefix(s, t) == Len(s) <= Len(t) /\ SubSeq(t, 1, Len(s)) = s
FullOrder == <<"locate", "get", "read", "extract", "set">>

C8_AsStated ==
  \A c \in Calls :
    (Done(c) /\ calls[c].modelType = EmptyName) => calls[c].rejected

\* C8 (amended): a call with an empty or blank type name resolves to the
\* empty sequence without locating a file or consulting the cache; it is
\* not rejected.
C8_BlankNameResolvesEmpty ==
  \A c \in Calls :
    (calls[c].pc # "idle" /\ ~Truthy(Trim(calls[c].modelType))) =>
      /\ Done(c)
      /\ ~calls[c].rejected
      /\ calls[c].result = <<>>
      /\ calls[c].steps = <<>>

C8_Witness ==
  \E c \in Calls :
    /\ Done(c)
    /\ calls[c].modelType = EmptyName
    /\ ~calls[c].rejected
    /\ calls[c].result = <<>>

\* C9: the steps of a call are a prefix of locate, consult, read, extract,
\* set; a call the cache answered has resolved to the cached sequence after
\* locate and consult alone, having read nothing; and the step that ends a
\* call whose text was extracted resolves to the extracted sequence having
\* called set with it (which stores it if the file can be stat-ed).
C9_StepOrder ==
  [][\A c \in Calls :
       /\ IsPrefix(calls'[c].steps, FullOrder)
       /\ calls'[c].cachedProperties.hit =>
            /\ calls'[c].pc = "done"
            /\ calls'[c].steps = <<"locate", "get">>
            /\ ReadNothing(calls'[c])
            /\ calls'[c].result = calls'[c].cachedProperties.properties
       /\ (calls[c].pc = "parsing" /\ calls'[c].pc = "done"
           /\ ~Extracted[calls[c].content][ClassOf(calls[c])].threw) =>
            /\ calls'[c].steps = FullOrder
            /\ calls'[c].result = Extracted[calls[c].content][ClassOf(calls[c])].properties
            /\ StatOk(calls[c].modelFile) =>
                 /\ HasEntry(cache', calls[c].modelType)
                 /\ EntryOf(cache', calls[c].modelType).properties = calls'[c].result]_vars

C9_Witness ==
  \E c, d \in Calls :
    /\ Done(c) /\ calls[c].steps = FullOrder
    /\ Done(d) /\ calls[d].cachedProperties.hit
    /\ calls[d].result = calls[c].result
    /\ calls[d].steps = <<"locate", "get">>

\* What the extraction makes of the current content of the file of T.
CurrentProperties(T) ==
  LET className == SplitPop(T, ".")
      files == findModelFiles(className)
  IN  IF ~Truthy(Trim(T)) \/ ~Truthy(className) \/ Len(files) = 0 THEN <<>>
      ELSE Extracted[fs[selectBestModelFile(files)].content][className].properties

\* C10 (as stated): a call that began with no other call in flight, and
\* during and after which no file has changed, resolves to the properties
\* of the file's current content.
C10_NextCallSeesCurrentContent ==
  \A c \in Calls :
    (Done(c) /\ calls[c].undisturbed) =>
      calls[c].result = CurrentProperties(calls[c].modelType)

(***************************************************************************)
(* Claims about the extracted properties.                                  *)
(***************************************************************************)

\* C11: the sequence a caller received is not the one the cache entry
\* holds, so that whatever callers do to the sequences they received, a
\* later hit returns what was stored.
C11_HitReturnsWhatWasStored ==
  mem.entry # 0 => mem.heap[cacheGetReference(mem)] = mem.stored

\* The number of lines of a text.
LineCount(text) == Len(Split(text, "\n"))

\* A text with no block comment opener and no quote character.
Plain(text) ==
  \A i \in 1..Len(text) :
    /\ ~At(text, i, <<"/", "*">>)
    /\ text[i] \notin {"\"", "'"}

\* C12 as stated: cleanSourceCode returns a text with as many lines as
\* its input has, whatever the input.
C12_AsStated ==
  scan.pc # "idle" => Len(scan.lines) = LineCount(TextOf(scan.body))

\* C12: cleanSourceCode never returns more lines than its input has, and
\* returns as many for a text with no block comment opener and no quote
\* character.
C12_LinesKeptInPlainText ==
  scan.pc # "idle" =>
    /\ Len(scan.lines) <= LineCount(TextOf(scan.body))
    /\ Plain(TextOf(scan.body)) => Len(scan.lines) = LineCount(TextOf(scan.body))

\* A plain text with a line comment in it has been cleaned.
C12_Witness ==
  /\ scan.pc = "done"
  /\ Plain(TextOf(scan.body))
  /\ \E k \in 1..Len(scan.body) : BodyLines[scan.body[k]] = <<"/", "/", " ", "n", "o", "t", "e">>

\* The class body has this source line at place k.
LineIs(k, line) == k \in 1..Len(scan.body) /\ BodyLines[scan.body[k]] = line

\* The properties the last finished run returned.
Returned == scan.results[Len(scan.results)]

\* C13: a class declaring `public int Id { get; set; }` and then
\* `public string Name { get; set; }` yields two properties, Id (primary
\* key, number) and then Name (not primary key, required, text).
C13_IdThenName ==
  ( /\ scan.pc = "done"
    /\ Len(scan.body) = 2
    /\ LineIs(1, <<"p", "u", "b", "l", "i", "c", " ", "i", "n", "t", " ", "I", "d", " ", "{", " ", "g", "e", "t", ";", " ", "s", "e", "t", ";", " ", "}">>)
    /\ LineIs(2, <<"p", "u", "b", "l", "i", "c", " ", "s", "t", "r", "i", "n", "g", " ", "N", "a", "m", "e", " ", "{", " ", "g", "e", "t", ";", " ", "s", "e", "t", ";", " ", "}">>) ) =>
      /\ Len(Returned) = 2
      /\ Returned[1].name = <<"I", "d">>
      /\ Returned[1].isPrimaryKey
      /\ Returned[1].inputType = <<"n", "u", "m", "b", "e", "r">>
      /\ Returned[2].name = <<"N", "a", "m", "e">>
      /\ ~Returned[2].isPrimaryKey
      /\ Returned[2].isRequired
      /\ Returned[2].inputType = <<"t", "e", "x", "t">>

\* The properties the finished runs returned.
OutputProperties ==
  UNION {{scan.results[r][k] : k \in 1..Len(scan.results[r])} : r \in 1..Len(scan.results)}

\* Some annotation of the property contains the word, whatever the case.
Annotated(p, word) ==
  \E i \in 1..Len(p.attributes) : Includes(ToLower(p.attributes[i]), word)

\* C14: a returned property is a primary key exactly when its name is, or
\* ends with, "id" (whatever the case) or one of its annotations contains
\* "key" (whatever the case).
C14_PrimaryKey ==
  \A p \in OutputProperties :
    p.isPrimaryKey <=>
      \/ ToLower(p.name) = <<"i", "d">>
      \/ EndsWith(ToLower(p.name), <<"i", "d">>)
      \/ Annotated(p, <<"k", "e", "y">>)

\* A property whose name ends in Id was returned as a primary key with no
\* annotation, next to a property that is no primary key.
C14_Witness ==
  /\ \E p \in OutputProperties :
        p.name = <<"P", "r", "o", "d", "u", "c", "t", "I", "d">> /\ p.attributes = <<>> /\ p.isPrimaryKey
  /\ \E p \in OutputProperties : ~p.isPrimaryKey

\* C15: a returned property with an annotation containing "required"
\* (whatever the case) is required, nullable or primary key as it may be;
\* one without is required exactly when it is neither nullable nor a
\* primary key.
C15_Required ==
  \A p \in OutputProperties :
    /\ Annotated(p, <<"r", "e", "q", "u", "i", "r", "e", "d">>) => p.isRequired
    /\ ~Annotated(p, <<"r", "e", "q", "u", "i", "r", "e", "d">>) => (p.isRequired <=> (~p.isNullable /\ ~p.isPrimaryKey))

\* A nullable property with a required annotation was returned.
C15_Witness ==
  \E p \in OutputProperties :
    p.isNullable /\ Annotated(p, <<"r", "e", "q", "u", "i", "r", "e", "d">>) /\ p.isRequired

\* C16: no returned property has a name ending in one of the skipped
\* words or an annotation containing NotMapped, Computed or
\* DatabaseGenerated.
C16_SkippedNeverReturned ==
  \A p \in OutputProperties :
    /\ \A word \in {<<"c", "r", "e", "a", "t", "e", "d", "a", "t">>, <<"u", "p", "d", "a", "t", "e", "d", "a", "t">>, <<"m", "o", "d", "i", "f", "i", "e", "d", "a", "t">>, <<"d", "e", "l", "e", "t", "e", "d", "a", "t">>,
                     <<"v", "e", "r", "s", "i", "o", "n">>, <<"t", "i", "m", "e", "s", "t", "a", "m", "p">>, <<"r", "o", "w", "v", "e", "r", "s", "i", "o", "n">>} :
         ~EndsWith(ToLower(p.name), word)
    /\ \A i \in 1..Len(p.attributes) :
         \A word \in {<<"N", "o", "t", "M", "a", "p", "p", "e", "d">>, <<"C", "o", "m", "p", "u", "t", "e", "d">>, <<"D", "a", "t", "a", "b", "a", "s", "e", "G", "e", "n", "e", "r", "a", "t", "e", "d">>} :
           ~Includes(p.attributes[i], word)

\* A class with a CreatedAt property and a property under a NotMapped
\* annotation was read, and neither property was returned.
C16_Witness ==
  /\ scan.pc = "done"
  /\ LineIs(1, <<"p", "u", "b", "l", "i", "c", " ", "D", "a", "t", "e", "T", "i", "m", "e", " ", "C", "r", "e", "a", "t", "e", "d", "A", "t", " ", "{", " ", "g", "e", "t", ";", " ", "s", "e", "t", ";", " ", "}">>)
  /\ LineIs(2, <<"[", "N", "o", "t", "M", "a", "p", "p", "e", "d", "]">>)
  /\ LineIs(3, <<"p", "u", "b", "l", "i", "c", " ", "s", "t", "r", "i", "n", "g", " ", "N", "a", "m", "e", " ", "{", " ", "g", "e", "t", ";", " ", "s", "e", "t", ";", " ", "}">>)
  /\ Returned = <<>>

\* The attribute keywords, in table order, the property's annotations hold.
KeywordsOf(p) ==
  {k \in 1..Len(ATTRIBUTE_MAPPINGS) : Annotated(p, ATTRIBUTE_MAPPINGS[k][1])}

C18_Lengths ==
  \A p \in OutputProperties :
    /\ (\E i \in 1..Len(p.attributes) : p.attributes[i] = <<"M", "a", "x", "L", "e", "n", "g", "t", "h", "(", "1", "0", "0", ")">>)
         => p.maxLength = <<100>>
    /\ (\A i \in 1..Len(p.attributes) : ~Includes(p.attributes[i], <<"M", "i", "n", "L", "e", "n", "g", "t", "h">>))
         => p.minLength = <<>>
    /\ (\A i \in 1..Len(p.attributes) :
          /\ ~Includes(p.attributes[i], <<"M", "a", "x", "L", "e", "n", "g", "t", "h">>)
          /\ ~Includes(p.attributes[i], <<"S", "t", "r", "i", "n", "g", "L", "e", "n", "g", "t", "h">>))
         => p.maxLength = <<>>

\* A property under MaxLength(100) alone was returned, with maxLength 100
\* and no minLength.
C18_Witness ==
  \E p \in OutputProperties :
    /\ p.attributes = <<<<"M", "a", "x", "L", "e", "n", "g", "t", "h", "(", "1", "0", "0", ")">>>>
    /\ p.maxLength = <<100>>
    /\ p.minLength = <<>>

OtherCode(line) ==
  /\ line # <<>>
  /\ ~StartsWith(line, <<"u", "s", "i", "n", "g", " ">>)
  /\ ~StartsWith(line, <<"n", "a", "m", "e", "s", "p", "a", "c", "e", " ">>)
  /\ ~AttributeMatch(line).matched
  /\ ~PropertyMatch(line).matched

\* C20: an iteration of the loop on a line of other code, inside the
\* class before and after, leaves no annotation pending.
C20_OtherCodeClears ==
  [][ ( /\ scan.pc = "scanning"
        /\ scan'.pc = "scanning"
        /\ scan'.i = scan.i + 1
        /\ scan.st.isInClass
        /\ scan'.st.isInClass
        /\ OtherCode(Trim(scan.lines[scan.i])) )
      => scan'.st.currentAttributes = <<>> ]_vars

\* C21: an iteration on a property declaration inside the class adds at
\* most one property, whose annotations are the pending ones in their
\* order, and leaves none pending, also when the property is skipped; an
\* iteration on an annotation line adds the annotation after the pending
\* ones.
C21_OneCandidateThenCleared ==
  [][ ( /\ scan.pc = "scanning"
        /\ scan'.pc = "scanning"
        /\ scan'.i = scan.i + 1
        /\ scan.st.isInClass
        /\ scan'.st.isInClass ) =>
      LET line == Trim(scan.lines[scan.i])
          before == scan.st.properties
          after == scan'.st.properties
      IN  /\ PropertyMatch(line).matched =>
               /\ scan'.st.currentAttributes = <<>>
               /\ \/ after = before
                  \/ /\ Len(after) = Len(before) + 1
                     /\ SubSeq(after, 1, Len(before)) = before
                     /\ after[Len(after)].name = Trim(PropertyMatch(line).name)
                     /\ after[Len(after)].attributes = scan.st.currentAttributes
          /\ (AttributeMatch(line).matched /\ AttributeMatch(line).body # <<>>) =>
               /\ after = before
               /\ scan'.st.currentAttributes
                    = Append(scan.st.currentAttributes, AttributeMatch(line).body) ]_vars

\* A property under two annotations was added with both, in their order,
\* and none is pending.
C21_Witness ==
  /\ scan.pc = "scanning"
  /\ scan.st.currentAttributes = <<>>
  /\ Len(scan.st.properties) = 1
  /\ scan.st.properties[1].attributes = <<<<"R", "e", "q", "u", "i", "r", "e", "d">>, <<"M", "a", "x", "L", "e", "n", "g", "t", "h", "(", "1", "0", "0", ")">>>>

\* The brace depth after the first k lines.
RECURSIVE Depth(_, _)
Depth(lines, k) ==
  IF k = 0 THEN 0
  ELSE Depth(lines, k - 1) + Count(lines[k], "{") - Count(lines[k], "}")

\* The first line with the class keyword, and the line on which the depth
\* is back to what it was before that line (0: there is none).
ClassLine(lines) ==
  LET with == {k \in 1..Len(lines) : Includes(lines[k], <<"c", "l", "a", "s", "s", " ">>)}
  IN  IF with = {} THEN 0 ELSE CHOOSE k \in with : \A j \in with : k <= j
CloseLine(lines) ==
  LET c == ClassLine(lines)
      back == {k \in (c + 1)..Len(lines) :
                 /\ c > 0
                 /\ Depth(lines, k) = Depth(lines, c - 1)
                 /\ \E j \in c..(k - 1) : Depth(lines, j) > Depth(lines, c - 1)}
  IN  IF back = {} THEN 0 ELSE CHOOSE k \in back : \A j \in back : k <= j

\* C22: the in-class flag is set from the line after the first class
\* keyword to the line that brings the depth back to where the class was
\* entered, and is not set on the lines after it.
C22_ClassEndsAtItsBrace ==
  (scan.pc = "scanning" /\ CloseLine(scan.lines) > 0) =>
    /\ (ClassLine(scan.lines) < scan.i /\ scan.i <= CloseLine(scan.lines))
         => scan.st.isInClass
    /\ scan.i > CloseLine(scan.lines) => ~scan.st.isInClass

\* The type a property of the source files is declared with.
DeclaredType(name) ==
  LET declarations == {BodyLines[k] : k \in MemberPool} \cup {ExtraLine}
      line == CHOOSE d \in declarations :
                PropertyMatch(d).matched /\ Trim(PropertyMatch(d).name) = name
  IN  Trim(PropertyMatch(line).type)

\* C23: a returned property is nullable exactly when the type it is
\* declared with ends with "?".
C23_NullableEndsWithMark ==
  \A p \in OutputProperties :
    p.isNullable <=> EndsWith(DeclaredType(p.name), <<"?">>)

\* C24: the property declared under Display(Name = "X"), or under
\* Description("X"), is returned with the display name, or the
\* description, X.
C24_QuotedMetadata ==
  (scan.pc = "done" /\ ~scan.variant) =>
    \A k \in 1..MaxMembers :
      /\ (LineIs(k, <<"[", "D", "i", "s", "p", "l", "a", "y", "(", "N", "a", "m", "e", " ", "=", " ", "\"", "X", "\"", ")", "]">>) /\ LineIs(k + 1, <<"p", "u", "b", "l", "i", "c", " ", "s", "t", "r", "i", "n", "g", " ", "N", "a", "m", "e", " ", "{", " ", "g", "e", "t", ";", " ", "s", "e", "t", ";", " ", "}">>))
           => \E p \in OutputProperties : p.name = <<"N", "a", "m", "e">> /\ p.displayName = <<<<"X">>>>
      /\ (LineIs(k, <<"[", "D", "e", "s", "c", "r", "i", "p", "t", "i", "o", "n", "(", "\"", "X", "\"", ")", "]">>) /\ LineIs(k + 1, <<"p", "u", "b", "l", "i", "c", " ", "s", "t", "r", "i", "n", "g", " ", "N", "a", "m", "e", " ", "{", " ", "g", "e", "t", ";", " ", "s", "e", "t", ";", " ", "}">>))
           => \E p \in OutputProperties : p.name = <<"N", "a", "m", "e">> /\ p.description = <<<<"X">>>>

\* The names, types and flags of the properties, in their order.
Shapes(properties) ==
  [k \in 1..Len(properties) |->
     [name |-> properties[k].name, type |-> properties[k].type,
      isPrimaryKey |-> properties[k].isPrimaryKey,
      isRequired |-> properties[k].isRequired,
      isNullable |-> properties[k].isNullable]]

\* C25: the run on the text with other interiors in its string literals
\* returns the same names, types and flags as the run on the text itself.
C25_LiteralInteriorsDoNotMatter ==
  (Len(scan.results) = 2 /\ scan.variant) =>
    Shapes(scan.results[2]) = Shapes(scan.results[1])

\* C30: the run for another class name on the same text returns what
\* the run before returned, the class header found or not.
C30_ClassNameDoesNotMatter ==
  (Len(scan.results) = 2 /\ ~scan.variant) => scan.results[2] = scan.results[1]

\* The second run was for a class name the text has no header of, and it
\* returned the members of the class in the text.
C30_Witness ==
  /\ Len(scan.results) = 2
  /\ ~scan.variant
  /\ scan.className = ClassQ
  /\ ~scan.classMatch
  /\ scan.results[2] # <<>>

(***************************************************************************)
(* Further claims about the cache.                                         *)
(***************************************************************************)

\* The entries of the Map other than the one of type name T, in order.
Others(c, T) == SelectSeq(c, LAMBDA e : e.modelType # T)

\* C26: a set on a cache at its size bound evicts the entry inserted
\* earliest and no other: but for the type name set, the Map afterwards is
\* the Map before without its first entry.
C26_OldestEvicted ==
  [][ (lastCall'.op = "set" /\ Len(cache) >= maxCacheSize) =>
        Others(cache', lastCall'.modelType)
          = Others(Tail(cache), lastCall'.modelType) ]_vars

\* C27: a set whose stat of the file fails leaves the cache as it was.
C27_FailedSetChangesNothing ==
  [][ (lastCall'.op = "set" /\ ~StatOk(lastCall'.filePath)) => cache' = cache ]_vars

\* C28: a set for a type name that has an entry removes the entry of no
\* other type name.
C28_ResetKeepsOthers ==
  [][ (lastCall'.op = "set" /\ HasEntry(cache, lastCall'.modelType)) =>
        \A U \in Keys(cache) : HasEntry(cache', U) ]_vars

\* C29: a get that returns a hit names the file the entry was stored for.
C29_HitNamesStoredFile ==
  [][ (lastCall'.op = "get" /\ lastCall'.result.hit) =>
        EntryOf(cache, lastCall'.modelType).filePath = lastCall'.filePath ]_vars

====
